---- MODULE Spec2Model ----
(***************************************************************************)
(* PToyDB (distdb): the storage engine with its write-ahead log, snapshot  *)
(* and recovery, and the query executor with the index manager on top of   *)
(* it.  Operators keep the names of the Python functions they are          *)
(* translated from.                                                        *)
(*                                                                         *)
(* Row keys are strings in the program (str(uuid4()) or caller-chosen);    *)
(* they are the integers of Keys here.  None is the integer 0, never a     *)
(* column value.                                                           *)
(***************************************************************************)
EXTENDS Integers, Sequences, FiniteSets, TLC

VARIABLES
    schemas,        \* StorageEngine.schemas: table -> (column -> type tag)
    tables,         \* StorageEngine.tables: defaultdict(dict), table -> key -> row
    operations_since_snapshot,  \* StorageEngine.operations_since_snapshot
    engine,         \* "open" | "closed" | "crashed": the life of the engine object
    wal,            \* the file wal_0000000001.log: a sequence of frames
    snapshot_json,  \* the file snapshot.json: <<>> (absent) or <<document>>
    snapshot_tmp,   \* the file snapshot.json.tmp: <<>> (absent) or <<document>>
    raised,         \* history: a call on this engine object has raised
    injected,       \* history: the durable writes the environment has failed
    indexes,        \* IndexManager.indexes: table -> the indexes of the table
    next_key,       \* the next key uuid4 hands to an INSERT
    raft,           \* the RaftNode objects: node id -> its fields and timers
    inflight,       \* the threads inside Node.execute_query: client -> where it is
    threads,        \* the locks: thread -> the events ahead of it, the locks it has
    log_file,       \* the bytes of wal_0000000001.log and the entries appended
    res             \* the last call: what was called and what it returned or raised

vars == <<schemas, tables, operations_since_snapshot, engine, wal,
          snapshot_json, snapshot_tmp, raised, injected, indexes, next_key,
          raft, inflight, threads, log_file, res>>

\* what the storage engine's callers leave alone, and the executor's
aboveStorage == <<indexes, next_key, raft, inflight, threads, log_file>>
aboveExecutor == <<raft, inflight, threads>>
\* what the consensus module's callers leave alone
database == <<schemas, tables, operations_since_snapshot, engine, wal,
              snapshot_json, snapshot_tmp, raised, injected, indexes, next_key,
              log_file>>

----------------------------------------------------------------------------
(* The inputs the callers draw from. *)

TableNames == {"t"}
Keys == {1, 2}
None == 0
SchemaA == [a |-> "INTEGER"]
SchemaAB == [a |-> "INTEGER", b |-> "TEXT"]
SchemaInputs == {SchemaA, SchemaAB}
\* the last row names a column no schema has
RowInputs == {[a |-> 1], [a |-> 2, b |-> 1], [c |-> 1]}

\* StorageEngine(snapshot_interval=2), as the snapshot test constructs it
SnapshotInterval == 2
\* no more than MaxWal frames are appended to the log between two truncations
MaxWal == 3
\* no more than MaxFaults durable writes fail
MaxFaults == 1

\* what the statements of the executor draw from
IndexInputs == {[name |-> "ix_a", columns |-> <<"a">>, kind |-> "btree"],
                [name |-> "ix_ab", columns |-> <<"a", "b">>, kind |-> "hash"],
                [name |-> "ix_ab", columns |-> <<"a", "b">>, kind |-> "btree"]}
IndexNames == {"ix_a", "ix_ab"}
\* WHERE: no condition, or equalities joined by AND
CondInputs == {<<>>, [a |-> 1], [b |-> 1], [a |-> 2, b |-> 1]}
\* SET: the last one names a column no schema has
SetInputs == {[a |-> 2], [c |-> 1]}
\* no more than MaxInserts rows are ever inserted
MaxInserts == 2

\* the RaftNode objects and the cluster each can be configured with
RaftNodes == {"n1", "n2"}
Clusters(n) == {<<n>>, <<"n1", "n2">>}
\* the commands handed to a bare RaftNode
Commands == {"x"}
\* the threads that call Node.execute_query
Clients == {"c1", "c2"}
\* the log file holds no more than MaxBytes bytes when an append begins
MaxBytes == 8
\* the threads that take locks
Threads == {"t1", "t2"}
\* no more than MaxWrites write statements are handed to the consensus log
MaxWrites == 3
\* no election starts at a term of MaxTerm or more
MaxTerm == 3
\* no log grows beyond MaxLog entries
MaxLog == 2
\* no more than MaxDue timers of a node have expired without having run
MaxDue == 1

----------------------------------------------------------------------------
(* Python dictionaries as functions with a finite domain. *)

EmptyDict == <<>>

DictSet(d, k, v) == [x \in (DOMAIN d) \cup {k} |-> IF x = k THEN v ELSE d[x]]

DictDel(d, k) == [x \in (DOMAIN d) \ {k} |-> d[x]]

\* d.get(k, default)
DictGet(d, k, default) == IF k \in DOMAIN d THEN d[k] ELSE default

----------------------------------------------------------------------------
(* The two encodings.  A JSON object is the set of its (name, value)       *)
(* members; integers and strings encode as themselves.                     *)

JsonObject(d, enc(_)) == {<<k, enc(d[k])>> : k \in DOMAIN d}

JsonParse(o, dec(_)) ==
    [k \in {m[1] : m \in o} |-> dec((CHOOSE m \in o : m[1] = k)[2])]

Scalar(v) == v

\* a dump that leaves the schemas out
json_dump_without_schemas(st) ==
    [tables  |-> JsonObject(st.tables,
                    LAMBDA rows : JsonObject(rows,
                        LAMBDA row : JsonObject(row, Scalar))),
     schemas |-> {},
     complete |-> TRUE]

\* json.dump(snapshot, f) of {'tables': {table: dict(data)}, 'schemas': self.schemas}
json_dump(st) ==
    [tables  |-> JsonObject(st.tables,
                    LAMBDA rows : JsonObject(rows,
                        LAMBDA row : JsonObject(row, Scalar))),
     schemas |-> JsonObject(st.schemas,
                    LAMBDA schema : JsonObject(schema, Scalar)),
     complete |-> TRUE]

\* json.load(f), then snapshot.get('tables', {}) and snapshot.get('schemas', {})
json_load_tables(doc) ==
    JsonParse(doc.tables,
        LAMBDA rows : JsonParse(rows, LAMBDA row : JsonParse(row, Scalar)))

json_load_schemas(doc) ==
    JsonParse(doc.schemas, LAMBDA schema : JsonParse(schema, Scalar))

\* what json.dump leaves in the file when the write fails part-way
PartialDocument == [tables |-> {}, schemas |-> {}, complete |-> FALSE]

\* An entry of the log as WriteAheadLog.append builds it (the timestamp, which
\* nothing reads, left out), and its frame in the file: the 4-byte length
\* prefix and the msgpack payload.  full is FALSE when fewer payload bytes
\* than the prefix announces are in the file.
Entry(operation, table, key, value) ==
    [operation |-> operation, table |-> table, key |-> key, value |-> value]

Frame(entry) == [entry |-> entry, full |-> TRUE]

----------------------------------------------------------------------------
(* The storage engine as a value: its fields and its three files. *)

St == [schemas |-> schemas, tables |-> tables,
       operations_since_snapshot |-> operations_since_snapshot,
       wal |-> wal, snapshot_json |-> snapshot_json,
       snapshot_tmp |-> snapshot_tmp]

\* What the environment does to a durable write during one call.
Reliable == [wal |-> "ok", snap |-> "ok"]
Faults == {[wal |-> "fail", snap |-> "ok"],
           [wal |-> "ok", snap |-> "write_fail"],
           [wal |-> "ok", snap |-> "rename_fail"]}

\* What a call did to the files, in program order.
Ev(call, entry) == [call |-> call, entry |-> entry]

\* How a call ends: the engine it leaves, the exception ("" when it returns),
\* the value returned, and what it did to the files.
Return(st, ret, trace) == [st |-> st, err |-> "", ret |-> ret, trace |-> trace]
Raise(st, err, trace) == [st |-> st, err |-> err, ret |-> FALSE, trace |-> trace]

----------------------------------------------------------------------------
(* WriteAheadLog *)

wal_append(st, entry) == [st EXCEPT !.wal = Append(@, Frame(entry))]

RECURSIVE read_all_entries(_)
read_all_entries(file) ==
    IF file = <<>> \/ ~Head(file).full
    THEN <<>>
    ELSE <<Head(file).entry>> \o read_all_entries(Tail(file))

truncate(st) == [st EXCEPT !.wal = <<>>]

----------------------------------------------------------------------------
(* StorageEngine: snapshot *)

write_tmp(st, io) ==
    [st EXCEPT !.snapshot_tmp =
        IF io.snap = "write_fail" THEN <<PartialDocument>> ELSE <<json_dump(st)>>]

rename_tmp(st) ==
    [st EXCEPT !.snapshot_json = st.snapshot_tmp, !.snapshot_tmp = <<>>]

\* a snapshot() that clears the log before the rename
snapshot_truncate_first(st, io) ==
    IF io.snap = "write_fail"
    THEN Raise(write_tmp(st, io), "OSError", <<Ev("write_tmp_failed", None)>>)
    ELSE IF io.snap = "rename_fail"
    THEN Raise(truncate(write_tmp(st, io)), "OSError",
               <<Ev("write_tmp", None), Ev("truncate", None), Ev("rename_failed", None)>>)
    ELSE Return([rename_tmp(truncate(write_tmp(st, io)))
                    EXCEPT !.operations_since_snapshot = 0], FALSE,
                <<Ev("write_tmp", None), Ev("truncate", None), Ev("rename", None)>>)

snapshot(st, io) ==
    IF io.snap = "write_fail"
    THEN Raise(write_tmp(st, io), "OSError", <<Ev("write_tmp_failed", None)>>)
    ELSE IF io.snap = "rename_fail"
    THEN Raise(write_tmp(st, io), "OSError",
               <<Ev("write_tmp", None), Ev("rename_failed", None)>>)
    ELSE IF io.snap = "crash"
    THEN Raise(rename_tmp(write_tmp(st, io)), "crash",
               <<Ev("write_tmp", None), Ev("rename", None)>>)
    ELSE Return([truncate(rename_tmp(write_tmp(st, io)))
                    EXCEPT !.operations_since_snapshot = 0], FALSE,
                <<Ev("write_tmp", None), Ev("rename", None), Ev("truncate", None)>>)

check_snapshot(st, io) ==
    IF st.operations_since_snapshot >= SnapshotInterval
    THEN snapshot(st, io)
    ELSE Return(st, FALSE, <<>>)

\* the tail of a mutation after its log entry is appended: what
\* _check_snapshot leaves, with the mutation's own return value
Finish(st, io, ret, entry) ==
    LET r == check_snapshot(st, io)
    IN  [r EXCEPT !.ret = IF r.err = "" THEN ret ELSE FALSE,
                  !.trace = <<Ev("append", entry)>> \o @]

AppendFailed(entry) == <<Ev("append_failed", entry)>>

----------------------------------------------------------------------------
(* StorageEngine: the operations *)

\* a create_table() without the check for an existing table
create_table_overwrites(st, table_name, schema, io) ==
    LET entry == Entry("CREATE_TABLE", table_name, None, schema)
        m == [st EXCEPT !.schemas = DictSet(@, table_name, schema),
                        !.tables = DictSet(@, table_name, EmptyDict)]
    IN  IF io.wal = "fail" THEN Raise(m, "OSError", AppendFailed(entry))
        ELSE Finish(wal_append(m, entry), io, FALSE, entry)

create_table(st, table_name, schema, io) ==
    IF table_name \in DOMAIN st.schemas
    THEN Raise(st, "ValueError: already exists", <<>>)
    ELSE LET entry == Entry("CREATE_TABLE", table_name, None, schema)
             m == [st EXCEPT !.schemas = DictSet(@, table_name, schema),
                             !.tables = DictSet(@, table_name, EmptyDict)]
         IN  IF io.wal = "fail" THEN Raise(m, "OSError", AppendFailed(entry))
             ELSE Finish(wal_append(m, entry), io, FALSE, entry)

drop_table(st, table_name, io) ==
    IF table_name \notin DOMAIN st.schemas
    THEN Raise(st, "ValueError: does not exist", <<>>)
    ELSE LET entry == Entry("DROP_TABLE", table_name, None, None)
             m1 == [st EXCEPT !.schemas = DictDel(@, table_name)]
             m2 == [m1 EXCEPT !.tables = DictDel(@, table_name)]
         IN  IF table_name \notin DOMAIN st.tables THEN Raise(m1, "KeyError", <<>>)
             ELSE IF io.wal = "fail" THEN Raise(m2, "OSError", AppendFailed(entry))
             ELSE Finish(wal_append(m2, entry), io, FALSE, entry)

get_schema(st, table_name) ==
    IF table_name \in DOMAIN st.schemas THEN <<st.schemas[table_name]>> ELSE <<>>

list_tables(st) == DOMAIN st.schemas

\* a put() without the validation of the columns
put_unchecked(st, table, key, value, io) ==
    IF table \notin DOMAIN st.schemas
    THEN Raise(st, "ValueError: does not exist", <<>>)
    ELSE LET entry == Entry("PUT", table, key, value)
             rows == DictGet(st.tables, table, EmptyDict)
             m == [st EXCEPT !.tables = DictSet(@, table, DictSet(rows, key, value))]
             n == [wal_append(m, entry) EXCEPT !.operations_since_snapshot = @ + 1]
         IN  IF io.wal = "fail" THEN Raise(m, "OSError", AppendFailed(entry))
             ELSE Finish(n, io, FALSE, entry)

put(st, table, key, value, io) ==
    IF table \notin DOMAIN st.schemas
    THEN Raise(st, "ValueError: does not exist", <<>>)
    ELSE IF \E col_name \in DOMAIN value : col_name \notin DOMAIN st.schemas[table]
    THEN Raise(st, "ValueError: not in schema", <<>>)
    ELSE LET entry == Entry("PUT", table, key, value)
             rows == DictGet(st.tables, table, EmptyDict)
             m == [st EXCEPT !.tables = DictSet(@, table, DictSet(rows, key, value))]
             n == [wal_append(m, entry) EXCEPT !.operations_since_snapshot = @ + 1]
         IN  IF io.wal = "fail" THEN Raise(m, "OSError", AppendFailed(entry))
             ELSE Finish(n, io, FALSE, entry)

\* an Optional row: <<>> for None, <<row>> otherwise
get(st, table, key) ==
    LET rows == DictGet(st.tables, table, EmptyDict)
    IN  IF key \in DOMAIN rows THEN <<rows[key]>> ELSE <<>>

\* a delete() that logs and counts the removal of a key that is not stored
delete_unconditional(st, table, key, io) ==
    LET entry == Entry("DELETE", table, key, None)
        rows == DictGet(st.tables, table, EmptyDict)
        m == [st EXCEPT !.tables = DictSet(@, table, DictDel(rows, key))]
        n == [wal_append(m, entry) EXCEPT !.operations_since_snapshot = @ + 1]
    IN  Finish(n, io, key \in DOMAIN rows, entry)

delete(st, table, key, io) ==
    IF table \in DOMAIN st.tables /\ key \in DOMAIN st.tables[table]
    THEN LET entry == Entry("DELETE", table, key, None)
             m == [st EXCEPT !.tables[table] = DictDel(@, key)]
             n == [wal_append(m, entry) EXCEPT !.operations_since_snapshot = @ + 1]
         IN  IF io.wal = "fail" THEN Raise(m, "OSError", AppendFailed(entry))
             ELSE Finish(n, io, TRUE, entry)
    ELSE Return(st, FALSE, <<>>)

\* list(self.tables[table].items()); a dict lists its keys in insertion
\* order, taken here as ascending key order
RECURSIVE Items(_, _)
Items(rows, ks) ==
    IF ks = {} THEN <<>>
    ELSE LET k == CHOOSE x \in ks : \A y \in ks : x <= y
         IN  <<<<k, rows[k]>>>> \o Items(rows, ks \ {k})

scan(st, table) ==
    IF table \notin DOMAIN st.tables THEN <<>>
    ELSE Items(st.tables[table], DOMAIN st.tables[table])

close(st, io) == snapshot(st, io)

----------------------------------------------------------------------------
(* StorageEngine: construction and recovery *)

\* self.tables[table] on the defaultdict: the entry is made when absent
Touched(st, table) ==
    IF table \in DOMAIN st.tables THEN st.tables
    ELSE DictSet(st.tables, table, EmptyDict)

\* the branches of the replay loop of _recover
replay_put(st, entry) ==
    LET touched == Touched(st, entry.table)
    IN  [st EXCEPT !.tables = DictSet(touched, entry.table,
                        DictSet(touched[entry.table], entry.key, entry.value))]

replay_delete(st, entry) ==
    LET touched == Touched(st, entry.table)
    IN  [st EXCEPT !.tables = DictSet(touched, entry.table,
                        DictDel(touched[entry.table], entry.key))]

replay_create_table(st, entry) ==
    [st EXCEPT !.schemas = DictSet(@, entry.table, entry.value)]

\* a DROP_TABLE replay that forgets the rows
replay_drop_table_keeps_rows(st, entry) ==
    [st EXCEPT !.schemas = DictDel(@, entry.table)]

replay_drop_table(st, entry) ==
    [st EXCEPT !.tables = DictDel(@, entry.table),
               !.schemas = DictDel(@, entry.table)]

\* one turn of the replay loop of _recover
replay_entry(st, entry) ==
    CASE entry.operation = "PUT" -> replay_put(st, entry)
      [] entry.operation = "DELETE" -> replay_delete(st, entry)
      [] entry.operation = "CREATE_TABLE" -> replay_create_table(st, entry)
      [] entry.operation = "DROP_TABLE" -> replay_drop_table(st, entry)
      [] OTHER -> st

RECURSIVE replay(_, _)
replay(st, entries) ==
    IF entries = <<>> THEN st
    ELSE replay(replay_entry(st, Head(entries)), Tail(entries))

load_snapshot(st) ==
    IF st.snapshot_json = <<>> THEN st
    ELSE [st EXCEPT !.tables = json_load_tables(st.snapshot_json[1]),
                    !.schemas = json_load_schemas(st.snapshot_json[1])]

recover(st) == replay(load_snapshot(st), read_all_entries(st.wal))

\* StorageEngine.__init__ on the directories the files of st are in
StorageEngine(st) ==
    recover([st EXCEPT !.tables = EmptyDict, !.schemas = EmptyDict,
                       !.operations_since_snapshot = 0])

----------------------------------------------------------------------------
(* HashIndex and BTreeIndex.  An index is a record: its name in the        *)
(* registry, its kind, its columns and its dict from index key to the set  *)
(* of row keys.                                                            *)

\* row.get(col), conditions.get(col)
RowGet(row, col) == IF col \in DOMAIN row THEN row[col] ELSE None

NewIndex(name, kind, columns) ==
    [name |-> name, kind |-> kind, columns |-> columns, index |-> EmptyDict]

BucketAdd(index, index_key, key) ==
    DictSet(index, index_key, DictGet(index, index_key, {}) \cup {key})

\* a discard that keeps the emptied bucket
BucketDiscardKept(index, index_key, key) ==
    IF index_key \notin DOMAIN index THEN index
    ELSE DictSet(index, index_key, index[index_key] \ {key})

\* discard the key; an emptied bucket is deleted
BucketDiscard(index, index_key, key) ==
    IF index_key \notin DOMAIN index THEN index
    ELSE IF index[index_key] \ {key} = {} THEN DictDel(index, index_key)
    ELSE DictSet(index, index_key, index[index_key] \ {key})

\* HashIndex._get_index_key: tuple(row.get(col) for col in self.columns)
hash_get_index_key(ix, row) ==
    [i \in 1..Len(ix.columns) |-> RowGet(row, ix.columns[i])]

hash_insert(ix, key, row) ==
    [ix EXCEPT !.index = BucketAdd(@, hash_get_index_key(ix, row), key)]

hash_delete(ix, key, row) ==
    [ix EXCEPT !.index = BucketDiscard(@, hash_get_index_key(ix, row), key)]

hash_lookup(ix, conditions) ==
    DictGet(ix.index, hash_get_index_key(ix, conditions), {})

\* BTreeIndex._get_index_value
btree_get_index_value(ix, row) == RowGet(row, ix.columns[1])

btree_insert(ix, key, row) ==
    IF btree_get_index_value(ix, row) = None THEN ix
    ELSE [ix EXCEPT !.index = BucketAdd(@, btree_get_index_value(ix, row), key)]

btree_delete(ix, key, row) ==
    IF btree_get_index_value(ix, row) = None THEN ix
    ELSE [ix EXCEPT !.index = BucketDiscard(@, btree_get_index_value(ix, row), key)]

btree_lookup(ix, conditions) ==
    IF ix.columns[1] \in DOMAIN conditions
    THEN DictGet(ix.index, conditions[ix.columns[1]], {})
    ELSE {}

index_insert(ix, key, row) ==
    IF ix.kind = "hash" THEN hash_insert(ix, key, row) ELSE btree_insert(ix, key, row)

index_delete(ix, key, row) ==
    IF ix.kind = "hash" THEN hash_delete(ix, key, row) ELSE btree_delete(ix, key, row)

index_lookup(ix, conditions) ==
    IF ix.kind = "hash" THEN hash_lookup(ix, conditions) ELSE btree_lookup(ix, conditions)

----------------------------------------------------------------------------
(* IndexManager.  im is its indexes, a defaultdict(dict): table -> the     *)
(* indexes of the table in the order they were created.                    *)

get_indexes_for_table(im, table) == DictGet(im, table, <<>>)

HasIndex(im, table, index_name) ==
    \E i \in DOMAIN get_indexes_for_table(im, table) :
        get_indexes_for_table(im, table)[i].name = index_name

\* a create_index that registers whatever it is given
create_index_unchecked(im, index_name, table, columns, index_type) ==
    [indexes |-> DictSet(im, table,
                    Append(get_indexes_for_table(im, table),
                           NewIndex(index_name, index_type, columns))),
     err |-> ""]

\* the outcome: the registry left, and the exception ("" when it returns)
create_index(im, index_name, table, columns, index_type) ==
    LET registered == get_indexes_for_table(im, table)
        \* self.indexes[table] makes the table's entry
        touched == DictSet(im, table, registered)
    IN  IF HasIndex(im, table, index_name)
        THEN [indexes |-> touched, err |-> "ValueError: index already exists"]
        ELSE IF index_type = "hash"
        THEN [indexes |-> DictSet(im, table,
                    Append(registered, NewIndex(index_name, "hash", columns))),
              err |-> ""]
        ELSE IF index_type = "btree"
        THEN IF Len(columns) # 1
             THEN [indexes |-> touched, err |-> "ValueError: single column"]
             ELSE [indexes |-> DictSet(im, table,
                        Append(registered, NewIndex(index_name, "btree", columns))),
                   err |-> ""]
        ELSE [indexes |-> touched, err |-> "ValueError: unknown index type"]

drop_index(im, table, index_name) ==
    IF table \in DOMAIN im
    THEN [im EXCEPT ![table] =
            SelectSeq(@, LAMBDA ix : ix.name # index_name)]
    ELSE im

insert_row(im, table, key, row) ==
    IF table \in DOMAIN im
    THEN [im EXCEPT ![table] =
            [i \in DOMAIN @ |-> index_insert(@[i], key, row)]]
    ELSE im

\* a delete_row that leaves the indexes alone
delete_row_skipped(im, table, key, row) == im

delete_row(im, table, key, row) ==
    IF table \in DOMAIN im
    THEN [im EXCEPT ![table] =
            [i \in DOMAIN @ |-> index_delete(@[i], key, row)]]
    ELSE im

\* sum(1 for col in index.columns if col in conditions)
Score(ix, conditions) ==
    Cardinality({j \in 1..Len(ix.columns) : ix.columns[j] \in DOMAIN conditions})

\* the loop with 'score >= best_score': the last of the best indexes wins
RECURSIVE BestFromLast(_, _, _, _, _)
BestFromLast(registered, conditions, i, best, best_score) ==
    IF i > Len(registered) THEN [best |-> best, best_score |-> best_score]
    ELSE IF Score(registered[i], conditions) >= best_score
    THEN BestFromLast(registered, conditions, i + 1, i, Score(registered[i], conditions))
    ELSE BestFromLast(registered, conditions, i + 1, best, best_score)

\* the loop of find_best_index from position i on: best is the position of
\* best_index (0 for None) and best_score its score
RECURSIVE BestFrom(_, _, _, _, _)
BestFrom(registered, conditions, i, best, best_score) ==
    IF i > Len(registered) THEN [best |-> best, best_score |-> best_score]
    ELSE IF Score(registered[i], conditions) > best_score
    THEN BestFrom(registered, conditions, i + 1, i, Score(registered[i], conditions))
    ELSE BestFrom(registered, conditions, i + 1, best, best_score)

\* an Optional index: <<>> for None
find_best_index(im, table, conditions) ==
    LET registered == get_indexes_for_table(im, table)
        found == BestFrom(registered, conditions, 1, 0, -1)
    IN  IF found.best_score > 0 THEN <<registered[found.best]>> ELSE <<>>

----------------------------------------------------------------------------
(* QueryExecutor: one operator per statement.  db is the storage engine    *)
(* and the index manager the executor holds; a statement ends like a call  *)
(* of the engine, with the database it leaves.                             *)

ExecReturn(db, ret, trace) == [db |-> db, err |-> "", ret |-> ret, trace |-> trace]
ExecRaise(db, err, trace) == [db |-> db, err |-> err, ret |-> 0, trace |-> trace]

matches_conditions(row, conditions) ==
    \A col \in DOMAIN conditions : RowGet(row, col) = conditions[col]

\* {**row, **values}
Merge(row, values) ==
    [col \in (DOMAIN row) \cup (DOMAIN values) |->
        IF col \in DOMAIN values THEN values[col] ELSE row[col]]

execute_create_table(db, table, schema, io) ==
    LET r == create_table(db.st, table, schema, io)
    IN  IF r.err # "" THEN ExecRaise([db EXCEPT !.st = r.st], r.err, r.trace)
        ELSE ExecReturn([db EXCEPT !.st = r.st], 0, r.trace)

\* for index_name in indexes: self.index_manager.drop_index(table, index_name)
RECURSIVE DropEach(_, _, _)
DropEach(im, table, names) ==
    IF names = <<>> THEN im
    ELSE DropEach(drop_index(im, table, Head(names)), table, Tail(names))

execute_drop_table(db, table, io) ==
    LET r == drop_table(db.st, table, io)
        registered == get_indexes_for_table(db.indexes, table)
        names == [i \in DOMAIN registered |-> registered[i].name]
    IN  IF r.err # "" THEN ExecRaise([db EXCEPT !.st = r.st], r.err, r.trace)
        ELSE ExecReturn([st |-> r.st,
                         indexes |-> DropEach(db.indexes, table, names)],
                        0, r.trace)

\* for key, row in self.storage.scan(table): index.insert(key, row)
RECURSIVE Build(_, _)
Build(ix, items) ==
    IF items = <<>> THEN ix
    ELSE Build(index_insert(ix, Head(items)[1], Head(items)[2]), Tail(items))

execute_create_index(db, index_name, table, columns, index_type) ==
    LET c == create_index(db.indexes, index_name, table, columns, index_type)
        last == Len(c.indexes[table])
    IN  IF c.err # "" THEN ExecRaise([db EXCEPT !.indexes = c.indexes], c.err, <<>>)
        ELSE ExecReturn([db EXCEPT !.indexes =
                            [c.indexes EXCEPT ![table][last] =
                                Build(@, scan(db.st, table))]],
                        0, <<>>)

execute_drop_index(db, table, index_name) ==
    ExecReturn([db EXCEPT !.indexes = drop_index(@, table, index_name)], 0, <<>>)

\* key is the str(uuid.uuid4()) of this INSERT
execute_insert(db, table, values, key, io) ==
    LET r == put(db.st, table, key, values, io)
    IN  IF r.err # "" THEN ExecRaise([db EXCEPT !.st = r.st], r.err, r.trace)
        ELSE ExecReturn([st |-> r.st,
                         indexes |-> insert_row(db.indexes, table, key, values)],
                        1, r.trace)

\* {**row, '_key': key}
WithKey(row, key) == DictSet(row, "_key", key)

\* the orders in which a Python set of keys can be iterated
Orders(ks) ==
    {o \in [1..Cardinality(ks) -> ks] : \A i, j \in DOMAIN o : o[i] = o[j] => i = j}

\* the rows of the index path for the candidate keys in the order o
RECURSIVE Fetch(_, _, _, _)
Fetch(st, table, conditions, o) ==
    IF o = <<>> THEN <<>>
    ELSE LET row == get(st, table, Head(o))
         IN  (IF row # <<>> /\ row[1] # EmptyDict
                    /\ matches_conditions(row[1], conditions)
              THEN <<WithKey(row[1], Head(o))>> ELSE <<>>)
             \o Fetch(st, table, conditions, Tail(o))

\* the rows of a full scan that match
RECURSIVE Filter(_, _)
Filter(items, conditions) ==
    IF items = <<>> THEN <<>>
    ELSE (IF matches_conditions(Head(items)[2], conditions)
          THEN <<WithKey(Head(items)[2], Head(items)[1])>> ELSE <<>>)
         \o Filter(Tail(items), conditions)

\* SELECT * FROM table [WHERE conditions], without ORDER BY and LIMIT: the
\* set of row lists it can return
execute_select(db, table, conditions) ==
    LET index == find_best_index(db.indexes, table, conditions)
    IN  IF conditions # EmptyDict /\ index # <<>>
        THEN {Fetch(db.st, table, conditions, o) :
                o \in Orders(index_lookup(index[1], conditions))}
        ELSE {Filter(scan(db.st, table), conditions)}

\* r.get(col, ''): <<>> stands for the empty string
SortKey(row, col) == IF col \in DOMAIN row THEN <<row[col]>> ELSE <<>>

\* '<' between two sort keys is defined: both are numbers or both are ''
Comparable(x, y) == (x = <<>>) = (y = <<>>)

\* x sorts strictly before y
KeyBefore(x, y, reverse) ==
    /\ x # <<>> /\ y # <<>>
    /\ IF reverse THEN x[1] > y[1] ELSE x[1] < y[1]

\* the row goes in front of the first row it sorts strictly before
RECURSIVE InsertStable(_, _, _, _)
InsertStable(sorted, row, col, reverse) ==
    IF sorted = <<>> THEN <<row>>
    ELSE IF KeyBefore(SortKey(row, col), SortKey(Head(sorted), col), reverse)
    THEN <<row>> \o sorted
    ELSE <<Head(sorted)>> \o InsertStable(Tail(sorted), row, col, reverse)

RECURSIVE StableSort(_, _, _, _)
StableSort(rows, sorted, col, reverse) ==
    IF rows = <<>> THEN sorted
    ELSE StableSort(Tail(rows), InsertStable(sorted, Head(rows), col, reverse),
                    col, reverse)

\* rows.sort(key=lambda r: r.get(col, ''), reverse=reverse): a stable sort,
\* or the TypeError of a comparison between a number and ''
sort(rows, col, reverse) ==
    IF \E i, j \in DOMAIN rows : ~Comparable(SortKey(rows[i], col), SortKey(rows[j], col))
    THEN [err |-> "TypeError", rows |-> rows]
    ELSE [err |-> "", rows |-> StableSort(rows, <<>>, col, reverse)]

\* for col, direction in reversed(query.order_by): rows.sort(...)
RECURSIVE apply_order_by(_, _)
apply_order_by(rows, order_by) ==
    IF order_by = <<>> THEN [err |-> "", rows |-> rows]
    ELSE LET minor == apply_order_by(rows, Tail(order_by))
         IN  IF minor.err # "" THEN minor
             ELSE sort(minor.rows, Head(order_by)[1], Head(order_by)[2] = "DESC")

\* rows[:query.limit]; <<>> is no LIMIT
apply_limit(rows, limit) ==
    IF limit = <<>> THEN rows
    ELSE SubSeq(rows, 1, IF limit[1] < Len(rows) THEN limit[1] ELSE Len(rows))

\* {col: row.get(col) for col in query.columns if col in row}
project(row, columns) ==
    [col \in {columns[i] : i \in DOMAIN columns} \cap (DOMAIN row) |-> row[col]]

apply_columns(rows, columns) ==
    IF columns # <<>> /\ columns # <<"*">>
    THEN [i \in DOMAIN rows |-> project(rows[i], columns)]
    ELSE rows

\* _execute_select on the rows the filter kept: the result dict, or the
\* exception
select_stages(rows, order_by, limit, columns) ==
    LET ordered == apply_order_by(rows, order_by)
        returned == apply_columns(apply_limit(ordered.rows, limit), columns)
    IN  IF ordered.err # "" THEN [err |-> ordered.err, rows |-> <<>>, row_count |-> 0]
        ELSE [err |-> "", rows |-> returned, row_count |-> Len(returned)]

\* the loop of _execute_update over the rows scanned
RECURSIVE update_rows(_, _, _, _, _, _, _)
update_rows(db, table, values, conditions, io, items, done) ==
    IF items = <<>> THEN ExecReturn(db, done.rows_affected, done.trace)
    ELSE LET key == Head(items)[1]
             row == Head(items)[2]
             removed == delete_row(db.indexes, table, key, row)
             updated_row == Merge(row, values)
             r == put(db.st, table, key, updated_row, io)
         IN  IF ~matches_conditions(row, conditions)
             THEN update_rows(db, table, values, conditions, io, Tail(items), done)
             ELSE IF r.err # ""
             THEN ExecRaise([st |-> r.st, indexes |-> removed], r.err,
                            done.trace \o r.trace)
             ELSE update_rows([st |-> r.st,
                               indexes |-> insert_row(removed, table, key, updated_row)],
                              table, values, conditions, io, Tail(items),
                              [rows_affected |-> done.rows_affected + 1,
                               trace |-> done.trace \o r.trace])

execute_update(db, table, values, conditions, io) ==
    update_rows(db, table, values, conditions, io, scan(db.st, table),
                [rows_affected |-> 0, trace |-> <<>>])

\* the second loop of _execute_delete over keys_to_delete
RECURSIVE delete_rows(_, _, _, _, _)
delete_rows(db, table, io, keys_to_delete, done) ==
    IF keys_to_delete = <<>> THEN ExecReturn(db, done.rows_affected, done.trace)
    ELSE LET key == Head(keys_to_delete)[1]
             row == Head(keys_to_delete)[2]
             r == delete(db.st, table, key, io)
         IN  IF r.err # ""
             THEN ExecRaise([db EXCEPT !.st = r.st], r.err, done.trace \o r.trace)
             ELSE delete_rows([st |-> r.st,
                               indexes |-> delete_row(db.indexes, table, key, row)],
                              table, io, Tail(keys_to_delete),
                              [rows_affected |-> done.rows_affected + 1,
                               trace |-> done.trace \o r.trace])

execute_delete(db, table, conditions, io) ==
    delete_rows(db, table, io,
                SelectSeq(scan(db.st, table),
                          LAMBDA item : matches_conditions(item[2], conditions)),
                [rows_affected |-> 0, trace |-> <<>>])

----------------------------------------------------------------------------
(* RaftNode.  rn is the object: its fields, its two threading.Timer        *)
(* references, the timer threads that have left their wait and not yet     *)
(* taken the lock, and the history of what the apply callback was handed.  *)
(* A Timer is "pending" until it expires or is cancelled; cancel() on a    *)
(* Timer whose function was already started does nothing.                  *)

LogEntry(term, index, command) == [term |-> term, index |-> index, command |-> command]

reset_election_timer(rn) == [rn EXCEPT !.election_timer = "pending"]

RaftNode(node_id, all_nodes) ==
    [node_id |-> node_id, all_nodes |-> all_nodes,
     current_term |-> 0, voted_for |-> <<>>, log |-> <<>>,
     commit_index |-> 0, last_applied |-> 0, state |-> "follower",
     next_index |-> EmptyDict, match_index |-> EmptyDict,
     apply_callback |-> FALSE,
     election_timer |-> "pending", heartbeat_timer |-> "none",
     \* timer threads past their wait: callbacks that will run
     election_due |-> 0, heartbeat_due |-> 0,
     \* heartbeat Timers still pending that self.heartbeat_timer no longer names
     heartbeat_orphans |-> 0,
     \* history: the entries handed to the apply callback, and shutdown() returned
     applied |-> <<>>, shut |-> FALSE]

set_apply_callback(rn) == [rn EXCEPT !.apply_callback = TRUE]

RECURSIVE apply_committed_entries(_)
apply_committed_entries(rn) ==
    IF rn.last_applied < rn.commit_index
    THEN LET stepped == [rn EXCEPT !.last_applied = @ + 1]
         IN  apply_committed_entries(
                IF stepped.last_applied <= Len(rn.log) /\ rn.apply_callback
                THEN [stepped EXCEPT !.applied = Append(@, rn.log[stepped.last_applied])]
                ELSE stepped)
    ELSE rn

try_commit(rn) ==
    IF rn.state = "leader" /\ Len(rn.log) > rn.commit_index
    THEN apply_committed_entries([rn EXCEPT !.commit_index = Len(rn.log)])
    ELSE rn

\* an append that does not look at the role
append_entry_any_role(rn, command) ==
    [rn |-> try_commit([rn EXCEPT !.log =
                Append(@, LogEntry(rn.current_term, Len(rn.log), command))]),
     ret |-> TRUE]

\* the node it leaves and the boolean it returns
append_entry(rn, command) ==
    IF rn.state # "leader" THEN [rn |-> rn, ret |-> FALSE]
    ELSE [rn |-> try_commit([rn EXCEPT !.log =
                    Append(@, LogEntry(rn.current_term, Len(rn.log), command))]),
          ret |-> TRUE]

\* a handler that does not look at voted_for
request_vote_again(rn, candidate_term, candidate_id, last_log_index, last_log_term) ==
    LET updated == IF candidate_term > rn.current_term
                   THEN [rn EXCEPT !.current_term = candidate_term,
                                   !.voted_for = <<>>, !.state = "follower"]
                   ELSE rn
        our_last_index == Len(updated.log) - 1
        our_last_term == IF updated.log # <<>>
                         THEN updated.log[Len(updated.log)].term ELSE 0
    IN  IF /\ candidate_term = updated.current_term
           /\ \/ last_log_term > our_last_term
              \/ last_log_term = our_last_term /\ last_log_index >= our_last_index
        THEN [rn |-> reset_election_timer([updated EXCEPT !.voted_for = <<candidate_id>>]),
              ret |-> TRUE]
        ELSE [rn |-> updated, ret |-> FALSE]

request_vote(rn, candidate_term, candidate_id, last_log_index, last_log_term) ==
    LET updated == IF candidate_term > rn.current_term
                   THEN [rn EXCEPT !.current_term = candidate_term,
                                   !.voted_for = <<>>, !.state = "follower"]
                   ELSE rn
        our_last_index == Len(updated.log) - 1
        our_last_term == IF updated.log # <<>>
                         THEN updated.log[Len(updated.log)].term ELSE 0
    IN  IF /\ candidate_term = updated.current_term
           /\ updated.voted_for \in {<<>>, <<candidate_id>>}
           /\ \/ last_log_term > our_last_term
              \/ last_log_term = our_last_term /\ last_log_index >= our_last_index
        THEN [rn |-> reset_election_timer([updated EXCEPT !.voted_for = <<candidate_id>>]),
              ret |-> TRUE]
        ELSE [rn |-> updated, ret |-> FALSE]

\* no minimum taken: the first of the two
MinLeft(a, b) == a

Min(a, b) == IF a <= b THEN a ELSE b

\* a handler that resets the election timer before it looks at the term
append_entries_hears_first(rn, leader_term, leader_id, leader_commit) ==
    IF leader_term < rn.current_term
    THEN [rn |-> reset_election_timer(rn), ret |-> FALSE]
    ELSE LET heard == reset_election_timer(
                        IF leader_term > rn.current_term
                        THEN [rn EXCEPT !.current_term = leader_term,
                                        !.voted_for = <<>>, !.state = "follower"]
                        ELSE rn)
         IN  IF leader_commit > heard.commit_index
             THEN [rn |-> apply_committed_entries(
                        [heard EXCEPT !.commit_index = Min(leader_commit, Len(heard.log))]),
                   ret |-> TRUE]
             ELSE [rn |-> heard, ret |-> TRUE]

\* entries, prev_log_index and prev_log_term are not read by the handler
append_entries(rn, leader_term, leader_id, leader_commit) ==
    LET updated == IF leader_term > rn.current_term
                   THEN [rn EXCEPT !.current_term = leader_term,
                                   !.voted_for = <<>>, !.state = "follower"]
                   ELSE rn
        heard == reset_election_timer(updated)
    IN  IF leader_term < updated.current_term THEN [rn |-> updated, ret |-> FALSE]
        ELSE IF leader_commit > heard.commit_index
        THEN [rn |-> apply_committed_entries(
                        [heard EXCEPT !.commit_index = Min(leader_commit, Len(heard.log))]),
              ret |-> TRUE]
        ELSE [rn |-> heard, ret |-> TRUE]

\* a new Timer is started; the one self.heartbeat_timer named is not cancelled
send_heartbeat(rn) ==
    IF rn.state = "leader"
    THEN [rn EXCEPT !.heartbeat_timer = "pending",
                    !.heartbeat_orphans =
                        IF rn.heartbeat_timer = "pending" THEN @ + 1 ELSE @]
    ELSE rn

become_leader(rn) ==
    LET others == {rn.all_nodes[i] : i \in DOMAIN rn.all_nodes} \ {rn.node_id}
    IN  send_heartbeat([rn EXCEPT !.state = "leader",
                          !.next_index = [node \in (DOMAIN @) \cup others |->
                                            IF node \in others THEN Len(rn.log) ELSE @[node]],
                          !.match_index = [node \in (DOMAIN @) \cup others |->
                                            IF node \in others THEN 0 ELSE @[node]]])

\* an election that waits for votes whatever the cluster
start_election_waits(rn) ==
    reset_election_timer([rn EXCEPT !.state = "candidate", !.current_term = @ + 1,
                                    !.voted_for = <<rn.node_id>>])

start_election(rn) ==
    LET candidate == [rn EXCEPT !.state = "candidate", !.current_term = @ + 1,
                                !.voted_for = <<rn.node_id>>]
    IN  IF Len(rn.all_nodes) = 1 THEN become_leader(candidate)
        ELSE reset_election_timer(candidate)

\* a timeout that makes the node leader whatever its cluster
on_election_timeout_wins(rn) ==
    IF rn.state # "leader"
    THEN become_leader([rn EXCEPT !.state = "candidate", !.current_term = @ + 1,
                                  !.voted_for = <<rn.node_id>>])
    ELSE rn

on_election_timeout(rn) ==
    IF rn.state # "leader" THEN start_election(rn) ELSE rn

is_leader(rn) == rn.state = "leader"

\* an Optional node id
get_leader_id(rn) == IF rn.state = "leader" THEN <<rn.node_id>> ELSE <<>>

cancel(timer) == IF timer = "pending" THEN "cancelled" ELSE timer

shutdown(rn) ==
    [rn EXCEPT !.election_timer = cancel(@), !.heartbeat_timer = cancel(@)]

\* ReplicationManager.replicate_write
replicate_write(rn, operation) ==
    IF ~is_leader(rn) THEN [rn |-> rn, ret |-> FALSE]
    ELSE append_entry(rn, operation)

----------------------------------------------------------------------------
(* The callers of the storage engine: one action per call. *)

SetSt(st) ==
    /\ schemas' = st.schemas
    /\ tables' = st.tables
    /\ operations_since_snapshot' = st.operations_since_snapshot
    /\ wal' = st.wal
    /\ snapshot_json' = st.snapshot_json
    /\ snapshot_tmp' = st.snapshot_tmp

Called(op, table, key, value, r) ==
    /\ SetSt(r.st)
    /\ raised' = (raised \/ r.err # "")
    /\ injected' = injected + Cardinality({i \in DOMAIN r.trace :
            r.trace[i].call \in {"append_failed", "write_tmp_failed", "rename_failed"}})
    /\ injected' <= MaxFaults
    /\ res' = [op |-> op, table |-> table, key |-> key, value |-> value,
               err |-> r.err, ret |-> r.ret, trace |-> r.trace]
    /\ UNCHANGED aboveStorage

InitEngine ==
    /\ schemas = EmptyDict
    /\ tables = EmptyDict
    /\ operations_since_snapshot = 0
    /\ engine = "open"
    /\ wal = <<>>
    /\ snapshot_json = <<>>
    /\ snapshot_tmp = <<>>
    /\ raised = FALSE
    /\ injected = 0
    /\ indexes = EmptyDict
    /\ next_key = 1
    /\ res = [op |-> "StorageEngine", table |-> "", key |-> None, value |-> None,
              err |-> "", ret |-> FALSE, trace |-> <<>>]

Idle == [pc |-> "idle", query |-> <<>>, before |-> <<>>]

InitDatabase ==
    /\ InitEngine
    /\ inflight = [c \in Clients |-> Idle]
    /\ threads = [t \in Threads |-> [todo |-> <<>>, held |-> <<>>]]
    /\ log_file = [bytes |-> <<>>, written |-> <<>>]

\* every RaftNode is constructed with itself as its whole cluster
Init ==
    /\ InitDatabase
    /\ raft = [n \in RaftNodes |-> RaftNode(n, <<n>>)]

Usable == engine = "open" /\ Len(wal) < MaxWal

CreateTable(t, schema, io) ==
    /\ Usable
    /\ Called("create_table", t, None, schema, create_table(St, t, schema, io))
    /\ UNCHANGED engine

DropTable(t, io) ==
    /\ Usable
    /\ Called("drop_table", t, None, None, drop_table(St, t, io))
    /\ UNCHANGED engine

Put(t, k, row, io) ==
    /\ Usable
    /\ Called("put", t, k, row, put(St, t, k, row, io))
    /\ UNCHANGED engine

Delete(t, k, io) ==
    /\ Usable
    /\ Called("delete", t, k, None, delete(St, t, k, io))
    /\ UNCHANGED engine

Snapshot(io) ==
    /\ engine = "open"
    /\ Called("snapshot", "", None, None, snapshot(St, io))
    /\ UNCHANGED engine

\* close(): snapshot(), then wal.close(); an exception of snapshot() leaves
\* the log open
Close(io) ==
    /\ engine = "open"
    /\ LET r == close(St, io)
       IN  /\ Called("close", "", None, None, r)
           /\ engine' = IF r.err = "" THEN "closed" ELSE "open"

\* the process dies: the object is gone, the files stay
Crash ==
    /\ engine = "open"
    /\ engine' = "crashed"
    /\ schemas' = EmptyDict
    /\ tables' = EmptyDict
    /\ operations_since_snapshot' = 0
    /\ raised' = FALSE
    /\ res' = [op |-> "crash", table |-> "", key |-> None, value |-> None,
               err |-> "", ret |-> FALSE, trace |-> <<>>]
    /\ UNCHANGED <<wal, snapshot_json, snapshot_tmp, injected>>
    /\ UNCHANGED aboveStorage

\* a new StorageEngine on the same directories
Restart ==
    /\ engine \in {"closed", "crashed"}
    /\ engine' = "open"
    /\ SetSt(StorageEngine(St))
    /\ raised' = FALSE
    /\ UNCHANGED injected
    /\ UNCHANGED aboveStorage
    /\ res' = [op |-> "StorageEngine", table |-> "", key |-> None, value |-> None,
               err |-> "", ret |-> FALSE, trace |-> <<>>]

Next ==
    \/ \E t \in TableNames, schema \in SchemaInputs : CreateTable(t, schema, Reliable)
    \/ \E t \in TableNames : DropTable(t, Reliable)
    \/ \E t \in TableNames, k \in Keys, row \in RowInputs : Put(t, k, row, Reliable)
    \/ \E t \in TableNames, k \in Keys : Delete(t, k, Reliable)
    \/ Snapshot(Reliable)
    \/ Close(Reliable)
    \/ Crash
    \/ Restart

Spec == Init /\ [][Next]_vars

\* the same callers on a disk whose writes can fail
Disk == IF injected < MaxFaults THEN {Reliable} \cup Faults ELSE {Reliable}
FaultKeys == {1}
FaultRows == {[a |-> 1], [a |-> 2, b |-> 1]}

NextFault ==
    \/ \E t \in TableNames, schema \in SchemaInputs, io \in Disk :
            CreateTable(t, schema, io)
    \/ \E t \in TableNames, io \in Disk : DropTable(t, io)
    \/ \E t \in TableNames, k \in FaultKeys, row \in FaultRows, io \in Disk :
            Put(t, k, row, io)
    \/ \E t \in TableNames, k \in FaultKeys, io \in Disk : Delete(t, k, io)
    \/ \E io \in Disk : Snapshot(io)
    \/ \E io \in Disk : Close(io)
    \/ Crash
    \/ Restart

SpecFault == Init /\ [][NextFault]_vars

\* the process dies inside snapshot(), between the rename of snapshot.json
\* and wal.truncate(): the files stay as the call left them, the memory is
\* gone.  value keeps what the engine held when the snapshot was written.
Dying == [wal |-> "ok", snap |-> "crash"]

CrashInSnapshot(op, r) ==
    /\ engine = "open"
    /\ r.err = "crash"
    /\ engine' = "crashed"
    /\ schemas' = EmptyDict
    /\ tables' = EmptyDict
    /\ operations_since_snapshot' = 0
    /\ wal' = r.st.wal
    /\ snapshot_json' = r.st.snapshot_json
    /\ snapshot_tmp' = r.st.snapshot_tmp
    /\ raised' = FALSE
    /\ res' = [op |-> "crash_in_snapshot", table |-> op, key |-> None,
               value |-> [schemas |-> r.st.schemas, tables |-> r.st.tables],
               err |-> "", ret |-> FALSE, trace |-> r.trace]
    /\ UNCHANGED injected
    /\ UNCHANGED aboveStorage

NextDying ==
    \/ Next
    \/ \E t \in TableNames, k \in Keys, row \in RowInputs :
            Len(wal) < MaxWal /\ CrashInSnapshot("put", put(St, t, k, row, Dying))
    \/ \E t \in TableNames, k \in Keys :
            Len(wal) < MaxWal /\ CrashInSnapshot("delete", delete(St, t, k, Dying))
    \/ CrashInSnapshot("snapshot", snapshot(St, Dying))
    \/ CrashInSnapshot("close", close(St, Dying))

SpecDying == Init /\ [][NextDying]_vars

----------------------------------------------------------------------------
(* The statements a client runs through QueryExecutor.execute, on a disk   *)
(* whose writes succeed.                                                   *)

Db == [st |-> St, indexes |-> indexes]

Executed(op, table, value, r) ==
    /\ SetSt(r.db.st)
    /\ indexes' = r.db.indexes
    /\ raised' = (raised \/ r.err # "")
    /\ res' = [op |-> op, table |-> table, key |-> None, value |-> value,
               err |-> r.err, ret |-> r.ret, trace |-> r.trace]
    /\ UNCHANGED <<engine, injected, log_file>>
    /\ UNCHANGED aboveExecutor

ExecuteCreateTable(t, schema) ==
    /\ Usable
    /\ Executed("CREATE_TABLE", t, schema, execute_create_table(Db, t, schema, Reliable))
    /\ UNCHANGED next_key

ExecuteDropTable(t) ==
    /\ Usable
    /\ Executed("DROP_TABLE", t, None, execute_drop_table(Db, t, Reliable))
    /\ UNCHANGED next_key

ExecuteCreateIndex(t, d) ==
    /\ Usable
    /\ Executed("CREATE_INDEX", t, d,
                execute_create_index(Db, d.name, t, d.columns, d.kind))
    /\ UNCHANGED next_key

ExecuteDropIndex(t, index_name) ==
    /\ Usable
    /\ Executed("DROP_INDEX", t, index_name, execute_drop_index(Db, t, index_name))
    /\ UNCHANGED next_key

\* a key minted for an INSERT that raises is never seen again
ExecuteInsert(t, values) ==
    /\ Usable
    /\ next_key <= MaxInserts
    /\ LET r == execute_insert(Db, t, values, next_key, Reliable)
       IN  /\ Executed("INSERT", t, values, [r EXCEPT !.ret = next_key])
           /\ next_key' = IF r.err = "" THEN next_key + 1 ELSE next_key

ExecuteSelect(t, conditions) ==
    /\ Usable
    /\ \E rows \in execute_select(Db, t, conditions) :
            Executed("SELECT", t, conditions, ExecReturn(Db, rows, <<>>))
    /\ UNCHANGED next_key

ExecuteUpdate(t, values, conditions) ==
    /\ Usable
    /\ Executed("UPDATE", t, [values |-> values, conditions |-> conditions],
                execute_update(Db, t, values, conditions, Reliable))
    /\ UNCHANGED next_key

ExecuteDelete(t, conditions) ==
    /\ Usable
    /\ Executed("DELETE", t, conditions, execute_delete(Db, t, conditions, Reliable))
    /\ UNCHANGED next_key

NextExec ==
    \/ \E t \in TableNames : ExecuteCreateTable(t, SchemaAB)
    \/ \E t \in TableNames : ExecuteDropTable(t)
    \/ \E t \in TableNames, d \in IndexInputs : ExecuteCreateIndex(t, d)
    \/ \E t \in TableNames, n \in IndexNames : ExecuteDropIndex(t, n)
    \/ \E t \in TableNames, values \in RowInputs : ExecuteInsert(t, values)
    \/ \E t \in TableNames, conditions \in CondInputs : ExecuteSelect(t, conditions)
    \/ \E t \in TableNames, values \in SetInputs, conditions \in CondInputs :
            ExecuteUpdate(t, values, conditions)
    \/ \E t \in TableNames, conditions \in CondInputs : ExecuteDelete(t, conditions)

SpecExec == Init /\ [][NextExec]_vars

----------------------------------------------------------------------------
(* SELECT with ORDER BY, LIMIT and a column list, over a table of up to   *)
(* MaxInserts rows.                                                        *)

SelectRows == {[a |-> 1], [a |-> 1, b |-> 2], [a |-> 1, b |-> 1], [a |-> 2, b |-> 1]}
SelectConds == {<<>>, [a |-> 1]}
OrderInputs == {<<>>, <<<<"a", "DESC">>>>, <<<<"b", "ASC">>>>,
                <<<<"a", "ASC">>, <<"b", "DESC">>>>}
LimitInputs == {<<>>, <<0>>, <<1>>}
ColumnInputs == {<<"*">>, <<"b">>, <<"a", "_key">>}

SelectQuery(conditions, order_by, limit, columns) ==
    [conditions |-> conditions, order_by |-> order_by, limit |-> limit,
     columns |-> columns]

\* _execute_select as a whole
ExecuteSelectQuery(t, query) ==
    /\ Usable
    /\ \E rows \in execute_select(Db, t, query.conditions) :
         LET r == select_stages(rows, query.order_by, query.limit, query.columns)
         IN  Executed("SELECT", t, query,
                      IF r.err # "" THEN ExecRaise(Db, r.err, <<>>)
                      ELSE ExecReturn(Db, [rows |-> r.rows, row_count |-> r.row_count],
                                      <<>>))
    /\ UNCHANGED next_key

NextSelect ==
    \/ \E t \in TableNames : ExecuteCreateTable(t, SchemaAB)
    \/ \E t \in TableNames, values \in SelectRows : ExecuteInsert(t, values)
    \/ \E t \in TableNames, conditions \in SelectConds, order_by \in OrderInputs,
          limit \in LimitInputs, columns \in ColumnInputs :
            ExecuteSelectQuery(t, SelectQuery(conditions, order_by, limit, columns))

SpecSelect == Init /\ [][NextSelect]_vars

----------------------------------------------------------------------------
(* The executor of a Node that can be killed and started again: the new   *)
(* Node has a recovered StorageEngine and a new, empty IndexManager.       *)

\* Node.__init__ on the data directories of the Node that died
NodeRestart ==
    /\ engine = "open"
    /\ SetSt(StorageEngine(St))
    /\ indexes' = EmptyDict
    /\ raised' = FALSE
    /\ res' = [op |-> "Node", table |-> "", key |-> None, value |-> None,
               err |-> "", ret |-> FALSE, trace |-> <<>>]
    /\ UNCHANGED <<engine, injected, next_key, log_file>>
    /\ UNCHANGED aboveExecutor

NextRestart ==
    \/ \E t \in TableNames : ExecuteCreateTable(t, SchemaAB)
    \/ \E t \in TableNames : ExecuteDropTable(t)
    \/ \E t \in TableNames, d \in IndexInputs : ExecuteCreateIndex(t, d)
    \/ \E t \in TableNames, values \in RowInputs : ExecuteInsert(t, values)
    \/ \E t \in TableNames, conditions \in CondInputs : ExecuteSelect(t, conditions)
    \/ NodeRestart

SpecRestart == Init /\ [][NextRestart]_vars

----------------------------------------------------------------------------
(* QueryExecutor.execute called by several threads.  A thread takes the    *)
(* executor's lock, runs its statement and releases the lock; CREATE INDEX *)
(* is run step by step: the index is registered, then filled from a scan,  *)
(* one row per step.                                                       *)

Query(query_type, table, values, conditions, index) ==
    [query_type |-> query_type, table |-> table, values |-> values,
     conditions |-> conditions, index |-> index]

Executing(c, query_type) ==
    /\ inflight[c].pc = "execute"
    /\ inflight[c].query[1].query_type = query_type

\* a lock that is never held
LockFreeAlways(c) == TRUE

\* with self.lock: no other thread is inside execute
LockFree(c) == \A other \in Clients \ {c} : inflight[other].pc = "idle"

Execute(c, query) ==
    /\ Usable
    /\ inflight[c].pc = "idle"
    /\ LockFree(c)
    /\ inflight' = [inflight EXCEPT ![c] =
            [pc |-> "execute", query |-> <<query>>, before |-> <<>>]]
    /\ UNCHANGED <<database, raft, threads, res>>

\* the statement of c ends: its result, and the lock released
Leave(c, r) ==
    /\ SetSt(r.db.st)
    /\ indexes' = r.db.indexes
    /\ raised' = (raised \/ r.err # "")
    /\ res' = [op |-> inflight[c].query[1].query_type,
               table |-> inflight[c].query[1].table, key |-> None,
               value |-> inflight[c].query[1], err |-> r.err, ret |-> r.ret,
               trace |-> r.trace]
    /\ inflight' = [inflight EXCEPT ![c] = Idle]
    /\ UNCHANGED <<engine, injected, log_file, raft, threads>>

RunCreateTable(c) ==
    /\ Executing(c, "CREATE_TABLE")
    /\ Leave(c, execute_create_table(Db, inflight[c].query[1].table,
                                     inflight[c].query[1].values, Reliable))
    /\ UNCHANGED next_key

RunInsert(c) ==
    /\ Executing(c, "INSERT")
    /\ next_key <= MaxInserts
    /\ LET r == execute_insert(Db, inflight[c].query[1].table,
                               inflight[c].query[1].values, next_key, Reliable)
       IN  /\ Leave(c, [r EXCEPT !.ret = next_key])
           /\ next_key' = IF r.err = "" THEN next_key + 1 ELSE next_key

RunSelect(c) ==
    /\ Executing(c, "SELECT")
    /\ \E rows \in execute_select(Db, inflight[c].query[1].table,
                                  inflight[c].query[1].conditions) :
            Leave(c, ExecReturn(Db, rows, <<>>))
    /\ UNCHANGED next_key

\* index_manager.create_index, and the scan the index is built from
RunCreateIndex(c) ==
    /\ Executing(c, "CREATE_INDEX")
    /\ LET query == inflight[c].query[1]
           r == create_index(indexes, query.index.name, query.table,
                             query.index.columns, query.index.kind)
       IN  IF r.err # ""
           THEN /\ Leave(c, ExecRaise([Db EXCEPT !.indexes = r.indexes], r.err, <<>>))
                /\ UNCHANGED next_key
           ELSE /\ indexes' = r.indexes
                /\ inflight' = [inflight EXCEPT ![c].pc = "build",
                                                ![c].before = scan(St, query.table)]
                /\ UNCHANGED <<schemas, tables, operations_since_snapshot, engine,
                               wal, snapshot_json, snapshot_tmp, raised, injected,
                               next_key, log_file, raft, threads, res>>

\* index.insert(key, row) for the next row of the scan
RunBuild(c) ==
    /\ inflight[c].pc = "build"
    /\ inflight[c].before # <<>>
    /\ LET query == inflight[c].query[1]
           item == Head(inflight[c].before)
       IN  indexes' = [indexes EXCEPT ![query.table] =
                [i \in DOMAIN @ |->
                    IF @[i].name = query.index.name
                    THEN index_insert(@[i], item[1], item[2]) ELSE @[i]]]
    /\ inflight' = [inflight EXCEPT ![c].before = Tail(@)]
    /\ UNCHANGED <<schemas, tables, operations_since_snapshot, engine, wal,
                   snapshot_json, snapshot_tmp, raised, injected, next_key,
                   log_file, raft, threads, res>>

RunBuilt(c) ==
    /\ inflight[c].pc = "build"
    /\ inflight[c].before = <<>>
    /\ Leave(c, ExecReturn(Db, 0, <<>>))
    /\ UNCHANGED next_key

NextThreads ==
    \E c \in Clients :
        \/ \E t \in TableNames :
                Execute(c, Query("CREATE_TABLE", t, SchemaAB, <<>>, <<>>))
        \/ \E t \in TableNames, values \in RowInputs :
                Execute(c, Query("INSERT", t, values, <<>>, <<>>))
        \/ \E t \in TableNames, conditions \in CondInputs :
                Execute(c, Query("SELECT", t, <<>>, conditions, <<>>))
        \/ \E t \in TableNames, d \in IndexInputs :
                Execute(c, Query("CREATE_INDEX", t, <<>>, <<>>, d))
        \/ RunCreateTable(c)
        \/ RunInsert(c)
        \/ RunSelect(c)
        \/ RunCreateIndex(c)
        \/ RunBuild(c)
        \/ RunBuilt(c)

SpecThreads == Init /\ [][NextThreads]_vars

----------------------------------------------------------------------------
(* The IndexManager and its indexes called directly, as the executor and   *)
(* the tests call them: any index may be given any row under any key, also *)
(* a row it never held.                                                    *)

IndexCalls == IndexInputs \cup {[name |-> "ix_a", columns |-> <<"a">>, kind |-> "hash"],
                             [name |-> "ix_a", columns |-> <<"a">>, kind |-> "rtree"]}
IndexRows == {[a |-> 1], [b |-> 1]}

Answered(op, table, value, err, ret) ==
    /\ res' = [op |-> op, table |-> table, key |-> None, value |-> value,
               err |-> err, ret |-> ret, trace |-> <<>>]
    /\ UNCHANGED <<schemas, tables, operations_since_snapshot, engine, wal,
                   snapshot_json, snapshot_tmp, raised, injected, next_key,
                   log_file, raft, inflight, threads>>

\* the index of that name in the registry, changed by Change
OnIndex(im, table, index_name, Change(_)) ==
    [im EXCEPT ![table] =
        [i \in DOMAIN @ |-> IF @[i].name = index_name THEN Change(@[i]) ELSE @[i]]]

CreateIndex(t, index_name, columns, kind) ==
    LET r == create_index(indexes, index_name, t, columns, kind)
    IN  /\ indexes' = r.indexes
        /\ Answered("create_index", t,
                    [name |-> index_name, columns |-> columns, kind |-> kind],
                    r.err, 0)

DropIndex(t, index_name) ==
    /\ indexes' = drop_index(indexes, t, index_name)
    /\ Answered("drop_index", t, index_name, "", 0)

IndexInsert(t, index_name, key, row) ==
    /\ HasIndex(indexes, t, index_name)
    /\ indexes' = OnIndex(indexes, t, index_name, LAMBDA ix : index_insert(ix, key, row))
    /\ Answered("insert", t, index_name, "", 0)

IndexDelete(t, index_name, key, row) ==
    /\ HasIndex(indexes, t, index_name)
    /\ indexes' = OnIndex(indexes, t, index_name, LAMBDA ix : index_delete(ix, key, row))
    \* noted with the call: whether it removed an index key
    /\ Answered("delete", t, index_name, "",
                IF \E i \in DOMAIN indexes[t] :
                        DOMAIN indexes'[t][i].index # DOMAIN indexes[t][i].index
                THEN 1 ELSE 0)

IndexLookup(t, index_name, conditions) ==
    /\ HasIndex(indexes, t, index_name)
    /\ UNCHANGED indexes
    /\ \E i \in DOMAIN get_indexes_for_table(indexes, t) :
        /\ get_indexes_for_table(indexes, t)[i].name = index_name
        /\ Answered("lookup", t, index_name, "",
                    Cardinality(index_lookup(get_indexes_for_table(indexes, t)[i],
                                             conditions)))

NextIndex ==
    \/ \E t \in TableNames, d \in IndexCalls :
            CreateIndex(t, d.name, d.columns, d.kind)
    \/ \E t \in TableNames, n \in IndexNames : DropIndex(t, n)
    \/ \E t \in TableNames, n \in IndexNames, key \in Keys, row \in IndexRows :
            IndexInsert(t, n, key, row)
    \/ \E t \in TableNames, n \in IndexNames, key \in Keys, row \in IndexRows :
            IndexDelete(t, n, key, row)
    \/ \E t \in TableNames, n \in IndexNames, conditions \in CondInputs :
            IndexLookup(t, n, conditions)

SpecIndex == Init /\ [][NextIndex]_vars

----------------------------------------------------------------------------
(* find_best_index on a registry with the indexes of two tables, created   *)
(* and dropped in any order.                                               *)

IndexedTables == {"t", "u"}

IndexCallsOn(t) ==
    IF t = "t" THEN IndexCalls
    ELSE {[name |-> "ux_b", columns |-> <<"b">>, kind |-> "hash"],
          [name |-> "ux_ab", columns |-> <<"a", "b">>, kind |-> "hash"]}

FindBestIndex(t, conditions) ==
    /\ UNCHANGED indexes
    /\ Answered("find_best_index", t, conditions, "",
                find_best_index(indexes, t, conditions))

NextBest ==
    \/ \E t \in IndexedTables : \E d \in IndexCallsOn(t) :
            CreateIndex(t, d.name, d.columns, d.kind)
    \/ \E t \in IndexedTables : \E d \in IndexCallsOn(t) : DropIndex(t, d.name)
    \/ \E t \in IndexedTables, conditions \in CondInputs : FindBestIndex(t, conditions)

SpecBest == Init /\ [][NextBest]_vars

----------------------------------------------------------------------------
(* range_scan called on the indexes of a table that the executor keeps up  *)
(* to date.  A bound is <<>> for None or <<v>>.                            *)

RangeRows == {[a |-> 1], [a |-> 2], [a |-> 3], [b |-> 1]}
RangeBounds == {<<>>, <<1>>, <<2>>, <<3>>}
RangeIndexes == {[name |-> "ix_a", columns |-> <<"a">>, kind |-> "btree"],
                 [name |-> "ix_ab", columns |-> <<"a", "b">>, kind |-> "hash"]}

\* an irange that leaves the maximum out
irange_open(index, minimum, maximum) ==
    {value \in DOMAIN index :
        /\ minimum # <<>> => minimum[1] <= value
        /\ maximum # <<>> => value < maximum[1]}

\* SortedDict.irange(minimum, maximum): the keys in the closed range
irange(index, minimum, maximum) ==
    {value \in DOMAIN index :
        /\ minimum # <<>> => minimum[1] <= value
        /\ maximum # <<>> => value <= maximum[1]}

btree_range_scan(ix, column, start, end) ==
    IF column # ix.columns[1]
    THEN [err |-> "ValueError: index is on another column", ret |-> {}]
    ELSE IF start = <<>> /\ end = <<>>
    THEN [err |-> "", ret |-> UNION {ix.index[value] : value \in DOMAIN ix.index}]
    ELSE [err |-> "",
          ret |-> UNION {ix.index[value] : value \in irange(ix.index, start, end)}]

hash_range_scan(ix, column, start, end) ==
    [err |-> "NotImplementedError", ret |-> {}]

range_scan(ix, column, start, end) ==
    IF ix.kind = "hash" THEN hash_range_scan(ix, column, start, end)
    ELSE btree_range_scan(ix, column, start, end)

RangeScan(t, i, column, start, end) ==
    /\ i \in DOMAIN get_indexes_for_table(indexes, t)
    /\ UNCHANGED indexes
    /\ LET ix == get_indexes_for_table(indexes, t)[i]
           r == range_scan(ix, column, start, end)
       IN  Answered("range_scan", t,
                    [name |-> ix.name, kind |-> ix.kind, column |-> column,
                     start |-> start, end |-> end],
                    r.err, r.ret)

NextRange ==
    \/ \E t \in TableNames : ExecuteCreateTable(t, SchemaAB)
    \/ \E t \in TableNames, d \in RangeIndexes : ExecuteCreateIndex(t, d)
    \/ \E t \in TableNames, values \in RangeRows : ExecuteInsert(t, values)
    \/ \E t \in TableNames, conditions \in {[a |-> 1], [b |-> 1]} :
            ExecuteDelete(t, conditions)
    \/ \E t \in TableNames, i \in 1..2, column \in {"a", "b"},
          start \in RangeBounds, end \in RangeBounds :
            RangeScan(t, i, column, start, end)

SpecRange == Init /\ [][NextRange]_vars

----------------------------------------------------------------------------
(* DROP INDEX as a client writes it: the statement is a sequence of words, *)
(* parsed by SQLParser._parse_drop_index and run by the executor.          *)

\* ParsedQuery.table of a statement that names no table: Python's None
NoTable == "None"

DropIndexStatements ==
    {<<"DROP", "INDEX", n>> : n \in IndexNames}
    \cup {<<"DROP", "INDEX", n, "ON", t>> : n \in IndexNames, t \in TableNames}

\* DROP\s+INDEX\s+(\w+)(?:\s+ON\s+(\w+))?
parse_drop_index(sql) ==
    [query_type |-> "DROP_INDEX",
     index_name |-> sql[3],
     table |-> IF Len(sql) >= 5 /\ sql[4] = "ON" THEN sql[5] ELSE NoTable]

ExecuteDropIndexStatement(sql) ==
    /\ Usable
    /\ LET query == parse_drop_index(sql)
       IN  Executed("DROP_INDEX", query.table, query.index_name,
                    execute_drop_index(Db, query.table, query.index_name))
    /\ UNCHANGED next_key

NextDropIndex ==
    \/ \E t \in TableNames : ExecuteCreateTable(t, SchemaAB)
    \/ \E t \in TableNames, d \in IndexInputs : ExecuteCreateIndex(t, d)
    \/ \E sql \in DropIndexStatements : ExecuteDropIndexStatement(sql)
    \/ \E t \in TableNames, values \in RowInputs : ExecuteInsert(t, values)
    \/ \E t \in TableNames, conditions \in CondInputs : ExecuteSelect(t, conditions)
    \/ \E t \in TableNames, conditions \in CondInputs : ExecuteDelete(t, conditions)

SpecDropIndex == Init /\ [][NextDropIndex]_vars

----------------------------------------------------------------------------
(* Two RaftNode objects that call each other: a node that is candidate     *)
(* calls request_vote on its peer with its own term and log, a node that   *)
(* is leader calls append_entries with its own term and commit index.      *)
(* Their owners append entries, their timers expire.                       *)

InitRaft ==
    /\ InitDatabase
    /\ \E all_nodes \in [RaftNodes -> UNION {Clusters(n) : n \in RaftNodes}] :
        /\ \A n \in RaftNodes : all_nodes[n] \in Clusters(n)
        /\ raft = [n \in RaftNodes |-> RaftNode(n, all_nodes[n])]

Due(rn) == rn.election_due + rn.heartbeat_due + rn.heartbeat_orphans

\* a call on node n leaves it as rn; r is the call and what it returned
RaftCalled(n, rn, r) ==
    /\ Due(rn) <= MaxDue
    /\ raft' = [raft EXCEPT ![n] = rn]
    /\ res' = r
    /\ UNCHANGED <<database, inflight, threads>>

Reply(op, n, ret) == [op |-> op, node |-> n, ret |-> ret]

SetApplyCallback(n) ==
    /\ ~raft[n].apply_callback
    /\ RaftCalled(n, set_apply_callback(raft[n]), Reply("set_apply_callback", n, TRUE))

AppendEntry(n, command) ==
    /\ Len(raft[n].log) < MaxLog
    /\ LET r == append_entry(raft[n], command)
       IN  RaftCalled(n, r.rn, [op |-> "append_entry", node |-> n,
                                command |-> command, ret |-> r.ret])

ReplicateWrite(n, operation) ==
    /\ Len(raft[n].log) < MaxLog
    /\ LET r == replicate_write(raft[n], operation)
       IN  RaftCalled(n, r.rn, [op |-> "replicate_write", node |-> n,
                                command |-> operation, ret |-> r.ret])

\* the election Timer expires: its thread will call _on_election_timeout
ElectionTimerExpires(n) ==
    /\ raft[n].election_timer = "pending"
    /\ RaftCalled(n, [raft[n] EXCEPT !.election_timer = "fired", !.election_due = @ + 1],
                  Reply("election_timer", n, TRUE))

OnElectionTimeout(n) ==
    /\ raft[n].election_due > 0
    /\ raft[n].state = "leader" \/ raft[n].current_term < MaxTerm
    /\ RaftCalled(n, on_election_timeout([raft[n] EXCEPT !.election_due = @ - 1]),
                  Reply("_on_election_timeout", n, TRUE))

\* the heartbeat Timer that self.heartbeat_timer names expires
HeartbeatTimerExpires(n) ==
    /\ raft[n].heartbeat_timer = "pending"
    /\ RaftCalled(n, [raft[n] EXCEPT !.heartbeat_timer = "fired", !.heartbeat_due = @ + 1],
                  Reply("heartbeat_timer", n, TRUE))

\* an older heartbeat Timer expires
OldHeartbeatTimerExpires(n) ==
    /\ raft[n].heartbeat_orphans > 0
    /\ RaftCalled(n, [raft[n] EXCEPT !.heartbeat_orphans = @ - 1, !.heartbeat_due = @ + 1],
                  Reply("heartbeat_timer", n, TRUE))

SendHeartbeat(n) ==
    /\ raft[n].heartbeat_due > 0
    /\ RaftCalled(n, send_heartbeat([raft[n] EXCEPT !.heartbeat_due = @ - 1]),
                  Reply("_send_heartbeat", n, TRUE))

LastLogTerm(rn) == IF rn.log # <<>> THEN rn.log[Len(rn.log)].term ELSE 0

RequestVoteCall(n, candidate_term, candidate_id, last_log_index, last_log_term) ==
    LET r == request_vote(raft[n], candidate_term, candidate_id,
                          last_log_index, last_log_term)
    IN  RaftCalled(n, r.rn, [op |-> "request_vote", node |-> n, term |-> candidate_term,
                             from |-> candidate_id, last_log_index |-> last_log_index,
                             last_log_term |-> last_log_term, ret |-> r.ret])

AppendEntriesCall(n, leader_term, leader_id, leader_commit) ==
    LET r == append_entries(raft[n], leader_term, leader_id, leader_commit)
    IN  RaftCalled(n, r.rn, [op |-> "append_entries", node |-> n, term |-> leader_term,
                             from |-> leader_id, commit |-> leader_commit,
                             ret |-> r.ret])

\* a candidate asks n for its vote
RequestVote(peer, n) ==
    /\ peer # n
    /\ raft[peer].state = "candidate"
    /\ RequestVoteCall(n, raft[peer].current_term, peer,
                       Len(raft[peer].log) - 1, LastLogTerm(raft[peer]))

\* a leader sends n its heartbeat
AppendEntries(peer, n) ==
    /\ peer # n
    /\ raft[peer].state = "leader"
    /\ AppendEntriesCall(n, raft[peer].current_term, peer, raft[peer].commit_index)

IsLeader(n) ==
    RaftCalled(n, raft[n], Reply("is_leader", n, is_leader(raft[n])))

GetLeaderId(n) ==
    RaftCalled(n, raft[n], [op |-> "get_leader_id", node |-> n,
                            leader_id |-> get_leader_id(raft[n])])

Shutdown(n) ==
    RaftCalled(n, [shutdown(raft[n]) EXCEPT !.shut = TRUE], Reply("shutdown", n, TRUE))

NextRaft ==
    \/ \E n \in RaftNodes, command \in Commands : AppendEntry(n, command)
    \/ \E n \in RaftNodes : ElectionTimerExpires(n)
    \/ \E n \in RaftNodes : OnElectionTimeout(n)
    \/ \E n \in RaftNodes : HeartbeatTimerExpires(n)
    \/ \E n \in RaftNodes : OldHeartbeatTimerExpires(n)
    \/ \E n \in RaftNodes : SendHeartbeat(n)
    \/ \E peer, n \in RaftNodes : RequestVote(peer, n)
    \/ \E peer, n \in RaftNodes : AppendEntries(peer, n)

SpecRaft == InitRaft /\ [][NextRaft]_vars

(* One RaftNode, n1, and everything that can be called on it: the calls of *)
(* its peers carry any term, log and commit index.                         *)

InitRaftNode ==
    /\ InitDatabase
    /\ \E all_nodes \in Clusters("n1") :
            raft = [n \in RaftNodes |->
                        RaftNode(n, IF n = "n1" THEN all_nodes ELSE <<n>>)]

Terms == 0..MaxTerm
Candidates == {"n2", "n3"}
PeerLogs == {[last_log_index |-> -1, last_log_term |-> 0],
             [last_log_index |-> 0, last_log_term |-> 1]}
CommitIndexes == 0..MaxLog

NextRaftNode ==
    \/ SetApplyCallback("n1")
    \/ \E command \in Commands : AppendEntry("n1", command)
    \/ \E operation \in Commands : ReplicateWrite("n1", operation)
    \/ ElectionTimerExpires("n1")
    \/ OnElectionTimeout("n1")
    \/ HeartbeatTimerExpires("n1")
    \/ OldHeartbeatTimerExpires("n1")
    \/ SendHeartbeat("n1")
    \/ \E candidate_term \in Terms, candidate_id \in Candidates, peer_log \in PeerLogs :
            RequestVoteCall("n1", candidate_term, candidate_id,
                            peer_log.last_log_index, peer_log.last_log_term)
    \/ \E leader_term \in Terms, leader_commit \in CommitIndexes :
            AppendEntriesCall("n1", leader_term, "n2", leader_commit)
    \/ Shutdown("n1")

SpecRaftNode == InitRaftNode /\ [][NextRaftNode]_vars

(* The same node as the sole member of its cluster, left running and       *)
(* called by nobody but its owner; its timers expire and their callbacks   *)
(* run.                                                                    *)

NextSole ==
    \/ SetApplyCallback("n1")
    \/ \E command \in Commands : AppendEntry("n1", command)
    \/ \E operation \in Commands : ReplicateWrite("n1", operation)
    \/ ElectionTimerExpires("n1")
    \/ OnElectionTimeout("n1")
    \/ HeartbeatTimerExpires("n1")
    \/ SendHeartbeat("n1")
    \/ IsLeader("n1")
    \/ GetLeaderId("n1")

SpecSole ==
    /\ Init
    /\ [][NextSole]_vars
    /\ WF_raft(ElectionTimerExpires("n1"))
    /\ WF_raft(OnElectionTimeout("n1"))

----------------------------------------------------------------------------
(* Node: one storage engine, index manager and executor, and the RaftNode  *)
(* "n1" with _apply_replicated_command installed as its apply callback.    *)
(* A statement is the SQL text a client sends, written as the ParsedQuery  *)
(* SQLParser.parse returns for it: the coordinator parses the text once,   *)
(* the callback parses the text of the command again and gets the same.    *)

WriteTypes == {"INSERT", "UPDATE", "DELETE", "CREATE_TABLE", "DROP_TABLE"}

ParsedQuery(query_type, table, values, conditions, schema) ==
    [query_type |-> query_type, table |-> table, values |-> values,
     conditions |-> conditions, schema |-> schema]

Statements ==
    {ParsedQuery("CREATE_TABLE", "t", EmptyDict, EmptyDict, SchemaAB),
     ParsedQuery("DROP_TABLE", "t", EmptyDict, EmptyDict, EmptyDict),
     ParsedQuery("INSERT", "t", [a |-> 1], EmptyDict, EmptyDict),
     ParsedQuery("UPDATE", "t", [a |-> 2], [a |-> 1], EmptyDict),
     ParsedQuery("DELETE", "t", EmptyDict, [a |-> 1], EmptyDict),
     ParsedQuery("SELECT", "t", EmptyDict, EmptyDict, EmptyDict)}

\* QueryExecutor.execute of a statement that changes the database
execute_write(db, query, key, io) ==
    CASE query.query_type = "CREATE_TABLE" ->
            execute_create_table(db, query.table, query.schema, io)
      [] query.query_type = "DROP_TABLE" ->
            execute_drop_table(db, query.table, io)
      [] query.query_type = "INSERT" ->
            execute_insert(db, query.table, query.values, key, io)
      [] query.query_type = "UPDATE" ->
            execute_update(db, query.table, query.values, query.conditions, io)
      [] query.query_type = "DELETE" ->
            execute_delete(db, query.table, query.conditions, io)

\* QueryExecutor.execute: the ways the statement can end
execute(db, query, key, io) ==
    IF query.query_type = "SELECT"
    THEN {ExecReturn(db, rows, <<>>) :
            rows \in execute_select(db, query.table, query.conditions)}
    ELSE IF query.query_type = "CREATE_INDEX"
    THEN {execute_create_index(db, query.index_name, query.table,
                               query.index_columns, query.index_type)}
    ELSE IF query.query_type = "DROP_INDEX"
    THEN {execute_drop_index(db, query.table, query.index_name)}
    ELSE {execute_write(db, query, key, io)}

\* the database with the counter that stands for uuid.uuid4(), and whether
\* a call on the engine has raised
Machine == [db |-> Db, next_key |-> next_key, raised |-> raised]

\* the machine after one run of the executor that ended as r
Ran(x, query, r) ==
    [db |-> r.db,
     next_key |-> IF query.query_type = "INSERT" /\ r.err = ""
                  THEN x.next_key + 1 ELSE x.next_key,
     raised |-> (x.raised \/ r.err # "")]

\* the callback parses and executes the statement; what the executor raises
\* is logged and goes no further
apply_replicated_command(x, command) ==
    IF command.type = "sql"
    THEN Ran(x, command.sql, execute_write(x.db, command.sql, x.next_key, Reliable))
    ELSE x

\* the callback on each entry the RaftNode hands over, in that order
RECURSIVE ApplyAll(_, _)
ApplyAll(x, entries) ==
    IF entries = <<>> THEN x
    ELSE ApplyAll(apply_replicated_command(x, Head(entries).command), Tail(entries))

\* the dict execute_query returns: an absent key is <<>>; message is kept
\* for the errors only
Result(status, message, rows_affected, rows, leads, node_id) ==
    [status |-> status, message |-> message, rows_affected |-> rows_affected,
     rows |-> rows, is_leader |-> leads, node_id |-> node_id]

NotTheLeader ==
    Result("error", "Not the leader, cannot write", <<>>, <<>>, <<FALSE>>, <<>>)

FailedToReplicate ==
    Result("error", "Failed to replicate write", <<>>, <<>>, <<>>, <<>>)

\* the dict of the executor with node_id and is_leader added, or the dict
\* of the except clause
Outcome(rn, query, r) ==
    IF r.err # "" THEN Result("error", r.err, <<>>, <<>>, <<>>, <<rn.node_id>>)
    ELSE IF query.query_type = "SELECT"
    THEN Result("success", "", <<>>, <<r.ret>>, <<is_leader(rn)>>, <<rn.node_id>>)
    ELSE Result("success", "", <<r.ret>>, <<>>, <<is_leader(rn)>>, <<rn.node_id>>)

\* a leader check that lets every write through
must_lead_never(query) == FALSE

\* line 130: the statements that need the leader
must_lead(query) == query.query_type \in WriteTypes

\* what the statement meets when its log entry is applied: whether its
\* table exists and how many rows its WHERE matches
Before(st, query) ==
    [absent |-> query.table \notin DOMAIN st.schemas,
     matched |-> Len(SelectSeq(scan(st, query.table),
                     LAMBDA item : matches_conditions(item[2], query.conditions)))]

SetMachine(x) ==
    /\ SetSt(x.db.st)
    /\ indexes' = x.db.indexes
    /\ next_key' = x.next_key
    /\ raised' = x.raised
    /\ UNCHANGED <<engine, injected, log_file>>

Returned(c, query, step, result) ==
    res' = [op |-> "execute_query", client |-> c, query |-> query,
            step |-> step, result |-> result]

\* lines 127-136: parse, and for a write ask the replication manager
\* whether this node leads
ExecuteQuery(c, query) ==
    /\ inflight[c].pc = "idle"
    /\ IF must_lead(query) /\ ~is_leader(raft["n1"])
       THEN /\ Returned(c, query, "is_leader", <<NotTheLeader>>)
            /\ UNCHANGED inflight
       ELSE /\ Returned(c, query, "is_leader", <<>>)
            /\ inflight' = [inflight EXCEPT ![c] =
                    [pc |-> IF must_lead(query) THEN "replicate_write" ELSE "execute",
                     query |-> <<query>>, before |-> <<>>]]
    /\ UNCHANGED <<database, raft, threads>>

\* lines 139-149: replicate_write under the locks of the replication
\* manager and the RaftNode; the entry is committed and the callback runs
\* before it returns
ExecuteQueryReplicate(c) ==
    /\ inflight[c].pc = "replicate_write"
    /\ Usable
    /\ Len(raft["n1"].log) < MaxWrites
    /\ LET query == inflight[c].query[1]
           r == replicate_write(raft["n1"], [type |-> "sql", sql |-> query])
           entries == SubSeq(r.rn.applied, Len(raft["n1"].applied) + 1,
                             Len(r.rn.applied))
       IN  /\ query.query_type = "INSERT" => next_key <= MaxInserts
           /\ raft' = [raft EXCEPT !["n1"] = r.rn]
           /\ SetMachine(ApplyAll(Machine, entries))
           /\ IF r.ret
              THEN /\ Returned(c, query, "replicate_write", <<>>)
                   /\ inflight' = [inflight EXCEPT ![c].pc = "execute",
                                        ![c].before = <<Before(St, query)>>]
              ELSE /\ Returned(c, query, "replicate_write", <<FailedToReplicate>>)
                   /\ inflight' = [inflight EXCEPT ![c] = Idle]
    /\ UNCHANGED threads

\* lines 152-164: the executor runs the parsed statement and the result
\* is returned
ExecuteQueryExecute(c) ==
    /\ inflight[c].pc = "execute"
    /\ Usable
    /\ LET query == inflight[c].query[1]
       IN  /\ query.query_type = "INSERT" => next_key <= MaxInserts
           /\ \E r \in execute(Db, query, next_key, Reliable) :
                /\ SetMachine(Ran(Machine, query, r))
                /\ Returned(c, query, "execute", <<Outcome(raft["n1"], query, r)>>)
    /\ inflight' = [inflight EXCEPT ![c] = Idle]
    /\ UNCHANGED <<raft, threads>>

\* Node.__init__: the cluster is the node alone or the node and a peer
InitNode ==
    /\ InitDatabase
    /\ \E cluster \in Clusters("n1") :
            raft = [n \in RaftNodes |->
                        IF n = "n1" THEN set_apply_callback(RaftNode(n, cluster))
                        ELSE RaftNode(n, <<n>>)]

NextNode ==
    \/ ElectionTimerExpires("n1")
    \/ OnElectionTimeout("n1")
    \/ \E c \in Clients, query \in Statements : ExecuteQuery(c, query)
    \/ \E c \in Clients : ExecuteQueryReplicate(c)
    \/ \E c \in Clients : ExecuteQueryExecute(c)

SpecNode == InitNode /\ [][NextNode]_vars

----------------------------------------------------------------------------
(* A Node that also takes CREATE INDEX and DROP INDEX, and that can be     *)
(* killed and constructed again on the same directories.                   *)

\* the ParsedQuery of a CREATE INDEX or DROP INDEX statement
IndexQuery(query_type, table, index_name, index_columns, index_type) ==
    [query_type |-> query_type, table |-> table, index_name |-> index_name,
     index_columns |-> index_columns, index_type |-> index_type]

RowStatements ==
    {ParsedQuery("CREATE_TABLE", "t", EmptyDict, EmptyDict, SchemaAB),
     ParsedQuery("INSERT", "t", [a |-> 1], EmptyDict, EmptyDict),
     ParsedQuery("SELECT", "t", EmptyDict, [a |-> 1], EmptyDict)}

IndexStatements ==
    {IndexQuery("CREATE_INDEX", "t", "ix_a", <<"a">>, "btree"),
     IndexQuery("DROP_INDEX", "t", "ix_a", <<>>, "")}

\* a Node whose new IndexManager is handed the indexes of the old one
NodeAgainWithIndexes ==
    /\ engine = "open"
    /\ SetSt(StorageEngine(St))
    /\ UNCHANGED indexes
    /\ raised' = FALSE
    /\ raft' = [raft EXCEPT !["n1"] =
                    set_apply_callback(RaftNode("n1", raft["n1"].all_nodes))]
    /\ inflight' = [c \in Clients |-> Idle]
    /\ res' = [op |-> "Node", table |-> "", key |-> None, value |-> None,
               err |-> "", ret |-> FALSE, trace |-> <<>>]
    /\ UNCHANGED <<engine, injected, next_key, log_file, threads>>

\* the process is killed and Node.__init__ runs on its directories: a
\* recovered StorageEngine, a new IndexManager, a new RaftNode with the
\* callback installed; the calls that were in flight are gone
NodeAgain ==
    /\ engine = "open"
    /\ SetSt(StorageEngine(St))
    /\ indexes' = EmptyDict
    /\ raised' = FALSE
    /\ raft' = [raft EXCEPT !["n1"] =
                    set_apply_callback(RaftNode("n1", raft["n1"].all_nodes))]
    /\ inflight' = [c \in Clients |-> Idle]
    /\ res' = [op |-> "Node", table |-> "", key |-> None, value |-> None,
               err |-> "", ret |-> FALSE, trace |-> <<>>]
    /\ UNCHANGED <<engine, injected, next_key, log_file, threads>>

NextNodeIndex ==
    \/ ElectionTimerExpires("n1")
    \/ OnElectionTimeout("n1")
    \/ \E c \in Clients, query \in RowStatements : ExecuteQuery(c, query)
    \/ \E c \in Clients, query \in IndexStatements : ExecuteQuery(c, query)
    \/ \E c \in Clients : ExecuteQueryReplicate(c)
    \/ \E c \in Clients : ExecuteQueryExecute(c)
    \/ NodeAgain

SpecNodeIndex == InitNode /\ [][NextNodeIndex]_vars

----------------------------------------------------------------------------
(* The locks.  Every `with self.lock:` of a call path is an acquire and a  *)
(* release around what the block does; an operation is written as the      *)
(* sequence of these events along its longest path: the put that reaches   *)
(* the snapshot interval, the table with an index, the loop over one row.  *)

NodeLock == "Node.lock"
ClusterManagerLock == "ClusterManager.lock"
ReplicationManagerLock == "ReplicationManager.lock"
RaftNodeLock == "RaftNode.lock"
QueryExecutorLock == "QueryExecutor.lock"
IndexManagerLock == "IndexManager.lock"
IndexLock == "Index.lock"
StorageEngineLock == "StorageEngine.lock"
WriteAheadLogLock == "WriteAheadLog.lock"

\* threading.RLock everywhere but in the WriteAheadLog, which has a Lock
Reentrant(lock) == lock # WriteAheadLogLock

With(lock, block) ==
    <<[do |-> "acquire", lock |-> lock]>> \o block
        \o <<[do |-> "release", lock |-> lock]>>

\* WriteAheadLog.append, truncate, close
locks_wal == With(WriteAheadLogLock, <<>>)

\* a snapshot that truncates the log before it has the engine
locks_snapshot_wal_first ==
    With(WriteAheadLogLock, With(StorageEngineLock, <<>>))

\* StorageEngine.snapshot
locks_snapshot == With(StorageEngineLock, locks_wal)

\* StorageEngine.create_table, drop_table: the append, then _check_snapshot
locks_create_table == With(StorageEngineLock, locks_wal \o locks_snapshot)

\* StorageEngine.put, delete: the append, then _check_snapshot
locks_put == With(StorageEngineLock, locks_wal \o locks_snapshot)

\* StorageEngine.get, scan, get_schema, list_tables
locks_scan == With(StorageEngineLock, <<>>)

\* StorageEngine.close
locks_close == With(StorageEngineLock, locks_snapshot \o locks_wal)

\* Index.insert, delete, lookup
locks_index == With(IndexLock, <<>>)

\* IndexManager.create_index, drop_index, get_indexes_for_table,
\* find_best_index
locks_find_best_index == With(IndexManagerLock, <<>>)

\* IndexManager.insert_row, delete_row
locks_insert_row == With(IndexManagerLock, locks_index)

QueryTypes == WriteTypes \cup {"CREATE_INDEX", "DROP_INDEX", "SELECT"}

\* QueryExecutor.execute
locks_execute(query_type) ==
    With(QueryExecutorLock,
         CASE query_type = "CREATE_TABLE" -> locks_create_table
           [] query_type = "DROP_TABLE" ->
                locks_create_table \o locks_find_best_index \o locks_find_best_index
           [] query_type = "CREATE_INDEX" ->
                locks_find_best_index \o locks_scan \o locks_index
           [] query_type = "DROP_INDEX" -> locks_find_best_index
           [] query_type = "INSERT" -> locks_put \o locks_insert_row
           [] query_type = "SELECT" ->
                locks_find_best_index \o locks_index \o locks_scan
           [] query_type = "UPDATE" ->
                locks_scan \o locks_insert_row \o locks_put \o locks_insert_row
           [] query_type = "DELETE" ->
                locks_scan \o locks_put \o locks_insert_row)

\* RaftNode.is_leader
locks_is_leader == With(RaftNodeLock, <<>>)

\* RaftNode._apply_committed_entries with Node._apply_replicated_command
\* as the callback
locks_apply_committed_entries(query_type) ==
    With(RaftNodeLock, locks_execute(query_type))

\* RaftNode.append_entry and _try_commit
locks_append_entry(query_type) ==
    With(RaftNodeLock,
         With(RaftNodeLock, locks_apply_committed_entries(query_type)))

\* ReplicationManager.replicate_write
locks_replicate_write(query_type) ==
    With(ReplicationManagerLock,
         locks_is_leader \o locks_append_entry(query_type))

\* Node.execute_query
locks_execute_query(query_type) ==
    IF query_type \in WriteTypes
    THEN locks_is_leader \o locks_replicate_write(query_type)
            \o locks_execute(query_type) \o locks_is_leader
    ELSE locks_execute(query_type) \o locks_is_leader

\* RaftNode.append_entries that raises the commit index
locks_append_entries(query_type) ==
    With(RaftNodeLock, locks_apply_committed_entries(query_type))

\* RaftNode._on_election_timeout, _start_election, _become_leader,
\* _send_heartbeat
locks_on_election_timeout ==
    With(RaftNodeLock,
         With(RaftNodeLock, With(RaftNodeLock, With(RaftNodeLock, <<>>))))

\* RaftNode._send_heartbeat from its timer
locks_send_heartbeat == With(RaftNodeLock, <<>>)

\* Node.get_status
locks_get_status ==
    With(NodeLock,
         locks_is_leader \o With(ClusterManagerLock, <<>>) \o locks_scan)

\* Node.stop: cluster_manager.stop, replication_manager.shutdown,
\* storage.close
locks_stop ==
    With(NodeLock,
         With(ClusterManagerLock, <<>>) \o With(RaftNodeLock, <<>>)
            \o locks_close)

Operations ==
    {locks_execute_query(query_type) : query_type \in QueryTypes}
    \cup {locks_append_entries(query_type) : query_type \in WriteTypes}
    \cup {locks_on_election_timeout, locks_send_heartbeat, locks_snapshot,
          locks_get_status, locks_stop}

Holds(t, lock) == \E i \in DOMAIN threads[t].held : threads[t].held[i] = lock

\* the thread is at an acquire
Wants(t, lock) ==
    /\ threads[t].todo # <<>>
    /\ Head(threads[t].todo) = [do |-> "acquire", lock |-> lock]

\* the acquire returns at once
Free(t, lock) ==
    /\ \A u \in Threads \ {t} : ~Holds(u, lock)
    /\ Holds(t, lock) => Reentrant(lock)

\* a thread enters an operation
Call(t, operation) ==
    /\ threads[t].todo = <<>>
    /\ threads' = [threads EXCEPT ![t].todo = operation]
    /\ UNCHANGED <<database, raft, inflight, res>>

Acquire(t) ==
    /\ \E lock \in {threads[t].todo[i].lock : i \in DOMAIN threads[t].todo} :
            /\ Wants(t, lock)
            /\ Free(t, lock)
            /\ threads' = [threads EXCEPT ![t].todo = Tail(@),
                                          ![t].held = Append(@, lock)]
    /\ UNCHANGED <<database, raft, inflight, res>>

\* the end of a with block gives back the lock taken last
Release(t) ==
    /\ threads[t].todo # <<>>
    /\ Head(threads[t].todo).do = "release"
    /\ threads' = [threads EXCEPT ![t].todo = Tail(@),
                                  ![t].held = SubSeq(@, 1, Len(@) - 1)]
    /\ UNCHANGED <<database, raft, inflight, res>>

NextLocks ==
    \/ \E t \in Threads, operation \in Operations : Call(t, operation)
    \/ \E t \in Threads : Acquire(t)
    \/ \E t \in Threads : Release(t)

SpecLocks == Init /\ [][NextLocks]_vars

----------------------------------------------------------------------------
(* The log file byte by byte.  A frame is the 4 bytes of                   *)
(* length.to_bytes(4, 'big') and the bytes of serialize(entry); a process  *)
(* that dies inside append leaves the first bytes of the frame, and the    *)
(* next process opens the same file for appending.                         *)

WalEntries ==
    {Entry("PUT", "t", 1, [a |-> 1]), Entry("DELETE", "t", 1, None)}

\* msgpack.packb(entry), cut short: the fixmap byte of a dict of five keys
\* (0x85) and bytes that tell the entries apart
serialize(entry) ==
    IF entry.operation = "PUT" THEN <<133, 80, 1>> ELSE <<133, 68>>

\* length.to_bytes(4, 'big') of a length below 256
to_bytes(length) == <<0, 0, 0, length>>

\* int.from_bytes(length_bytes, 'big') of the bytes f.read(4) returned
RECURSIVE from_bytes(_)
from_bytes(length_bytes) ==
    IF length_bytes = <<>> THEN 0
    ELSE 256 * from_bytes(SubSeq(length_bytes, 1, Len(length_bytes) - 1))
            + length_bytes[Len(length_bytes)]

FrameBytes(entry) == to_bytes(Len(serialize(entry))) \o serialize(entry)

\* f.read(n): the next n bytes, or fewer at the end of the file
Read(bytes, n) == SubSeq(bytes, 1, Min(n, Len(bytes)))
Rest(bytes, n) == SubSeq(bytes, Min(n, Len(bytes)) + 1, Len(bytes))

\* msgpack.unpackb(data): the entry when data is one packed entry; of no
\* bytes it raises; of other bytes it raises, or (lenient) makes an object
\* that is no entry
deserialize(data, lenient) ==
    IF \E entry \in WalEntries : serialize(entry) = data
    THEN [err |-> "", entry |-> CHOOSE entry \in WalEntries : serialize(entry) = data]
    ELSE IF lenient /\ data # <<>> THEN [err |-> "", entry |-> [garbled |-> data]]
    ELSE [err |-> "ValueError: Unpack failed", entry |-> [garbled |-> data]]

\* the while loop of read_all_entries over one file
RECURSIVE wal_read_all_entries(_, _, _)
wal_read_all_entries(bytes, entries, lenient) ==
    LET length_bytes == Read(bytes, 4)
        length == from_bytes(length_bytes)
        data == Read(Rest(bytes, 4), length)
        d == deserialize(data, lenient)
    IN  IF length_bytes = <<>> THEN [err |-> "", ret |-> entries]
        ELSE IF Len(data) # length THEN [err |-> "", ret |-> entries]
        ELSE IF d.err # "" THEN [err |-> d.err, ret |-> <<>>]
        ELSE wal_read_all_entries(Rest(Rest(bytes, 4), length),
                                  Append(entries, d.entry), lenient)

\* WriteAheadLog.append returns: the whole frame is in the file
WalAppend(entry) ==
    /\ Len(log_file.bytes) < MaxBytes
    /\ log_file' = [bytes |-> log_file.bytes \o FrameBytes(entry),
                    written |-> Append(log_file.written, entry)]
    /\ res' = [op |-> "append", err |-> "", ret |-> <<entry>>]
    /\ UNCHANGED <<schemas, tables, operations_since_snapshot, engine, wal,
                   snapshot_json, snapshot_tmp, raised, injected>>
    /\ UNCHANGED <<indexes, next_key, raft, inflight, threads>>

\* the process dies inside append with k bytes of the frame in the file
WalAppendTorn(entry, k) ==
    /\ Len(log_file.bytes) < MaxBytes
    /\ k \in 1..(Len(FrameBytes(entry)) - 1)
    /\ log_file' = [log_file EXCEPT !.bytes = @ \o SubSeq(FrameBytes(entry), 1, k)]
    /\ res' = [op |-> "crash", err |-> "", ret |-> <<entry>>]
    /\ UNCHANGED <<schemas, tables, operations_since_snapshot, engine, wal,
                   snapshot_json, snapshot_tmp, raised, injected>>
    /\ UNCHANGED <<indexes, next_key, raft, inflight, threads>>

WalReadAllEntries ==
    /\ \E lenient \in BOOLEAN :
        LET r == wal_read_all_entries(log_file.bytes, <<>>, lenient)
        IN  res' = [op |-> "read_all_entries", err |-> r.err, ret |-> r.ret]
    /\ UNCHANGED <<schemas, tables, operations_since_snapshot, engine, wal,
                   snapshot_json, snapshot_tmp, raised, injected, log_file>>
    /\ UNCHANGED <<indexes, next_key, raft, inflight, threads>>

\* WriteAheadLog.truncate: the file is removed and made anew
WalTruncate ==
    /\ log_file' = [bytes |-> <<>>, written |-> <<>>]
    /\ res' = [op |-> "truncate", err |-> "", ret |-> <<>>]
    /\ UNCHANGED <<schemas, tables, operations_since_snapshot, engine, wal,
                   snapshot_json, snapshot_tmp, raised, injected>>
    /\ UNCHANGED <<indexes, next_key, raft, inflight, threads>>

NextWal ==
    \/ \E entry \in WalEntries : WalAppend(entry)
    \/ \E entry \in WalEntries, k \in 1..MaxBytes : WalAppendTorn(entry, k)
    \/ WalReadAllEntries
    \/ WalTruncate

SpecWal == Init /\ [][NextWal]_vars

----------------------------------------------------------------------------
(* What a caller can observe of an engine, and what the last call did. *)

Observe(st) ==
    [list_tables |-> list_tables(st),
     get_schema  |-> [t \in TableNames |-> get_schema(st, t)],
     get         |-> [t \in TableNames |-> [k \in Keys |-> get(st, t, k)]],
     scan        |-> [t \in TableNames |-> scan(st, t)]]

Did(r, calls) == \E i \in DOMAIN r.trace : r.trace[i].call \in calls

\* the entries the call handed to WriteAheadLog.append, in order
RECURSIVE Appended(_)
Appended(trace) ==
    IF trace = <<>> THEN <<>>
    ELSE (IF Head(trace).call = "append" THEN <<Head(trace).entry>> ELSE <<>>)
         \o Appended(Tail(trace))

IsPrefix(s, t) == Len(s) <= Len(t) /\ SubSeq(t, 1, Len(s)) = s

Stored(st, t, k) == get(st, t, k) # <<>>

----------------------------------------------------------------------------
(* C1: on a reliable disk, whenever every call on the open engine has      *)
(* returned normally, a new engine built from the files (the snapshot, if  *)
(* any, and the log) shows the same tables, schemas and rows through       *)
(* list_tables, get_schema, get and scan as the engine in memory.          *)
C1_WalRecovery ==
    (engine = "open" /\ ~raised) => Observe(StorageEngine(St)) = Observe(St)

\* an engine rebuilt from the log alone, holding a row, with no snapshot taken
C1_Witness ==
    /\ engine = "open" /\ ~raised
    /\ res.op = "StorageEngine"
    /\ snapshot_json = <<>>
    /\ Len(wal) >= 2
    /\ \E k \in Keys : Stored(St, "t", k)

(* C2: right after a snapshot has been taken (snapshot(), close(), or the  *)
(* automatic one at the threshold), a new engine built from the files      *)
(* shows the same tables, schemas and rows as the engine in memory.        *)
C2_SnapshotRecovery ==
    (engine \in {"open", "closed"} /\ res.err = "" /\ Did(res, {"truncate"}))
        => Observe(StorageEngine(St)) = Observe(St)

\* a closed engine whose snapshot holds a table with a row
C2_Witness ==
    /\ engine = "closed" /\ res.op = "close" /\ res.err = ""
    /\ snapshot_json # <<>> /\ wal = <<>>
    /\ \E k \in Keys : Stored(St, "t", k)

(* C3: in every call, the log is truncated only after the rename, and then *)
(* snapshot.json holds the complete dump of the engine; when writing the   *)
(* temporary file or the rename fails, the log keeps every frame, the      *)
(* counter is not reset, snapshot.json is untouched, and for snapshot()    *)
(* and close() a recovery from the files rebuilds what it rebuilt before.  *)
C3_SnapshotThenTruncate ==
    [][ /\ \A i \in DOMAIN res'.trace :
              res'.trace[i].call = "truncate" =>
                  /\ \E j \in 1..(i - 1) : res'.trace[j].call = "rename"
                  /\ snapshot_json' = <<json_dump(St')>>
                  /\ wal' = <<>>
                  /\ operations_since_snapshot' = 0
        /\ Did(res', {"write_tmp_failed", "rename_failed"}) =>
              /\ ~Did(res', {"truncate"})
              /\ IsPrefix(wal, wal')
              /\ operations_since_snapshot' >= operations_since_snapshot
              /\ snapshot_json' = snapshot_json
              /\ res'.op \in {"snapshot", "close"} =>
                    /\ wal' = wal
                    /\ operations_since_snapshot' = operations_since_snapshot
                    /\ Observe(StorageEngine(St')) = Observe(StorageEngine(St))
      ]_vars

\* a snapshot() whose rename failed, with frames in the log and a row stored
C3_Witness ==
    /\ res.op = "snapshot" /\ Did(res, {"rename_failed"})
    /\ wal # <<>> /\ snapshot_tmp # <<>>
    /\ \E k \in Keys : Stored(St, "t", k)

(* C4: when the append to the log fails, schemas and tables are what they  *)
(* were before the call.                                                   *)
C4_WalBeforeMemory ==
    [][ Did(res', {"append_failed"}) => (schemas' = schemas /\ tables' = tables) ]_vars

ValidRow(st, t, row) ==
    t \in DOMAIN st.schemas /\ DOMAIN row \subseteq DOMAIN st.schemas[t]

Untouched ==
    UNCHANGED <<schemas, tables, operations_since_snapshot, wal,
                snapshot_json, snapshot_tmp>>

(* C5: put(T, k, row) returns normally exactly when T has a schema and     *)
(* every column of row is in it; a rejected put leaves tables, schemas,    *)
(* the log and the counter as they were; and every stored row belongs to a *)
(* table with a schema and has only columns of that schema.                *)
C5_SchemaEnforcement ==
    /\ [](\A t \in DOMAIN tables : \A k \in DOMAIN tables[t] :
            ValidRow(St, t, tables[t][k]))
    /\ [][ res'.op = "put" =>
            /\ (res'.err = "") <=> ValidRow(St, res'.table, res'.value)
            /\ res'.err # "" => (Untouched /\ res'.trace = <<>>)
            /\ res'.err = "" => get(St', res'.table, res'.key) = <<res'.value>>
         ]_vars

\* a put naming an unknown column was rejected on a table that holds a row
C5_Witness ==
    /\ res.op = "put" /\ res.err = "ValueError: not in schema"
    /\ "t" \in DOMAIN schemas
    /\ \E k \in Keys : Stored(St, "t", k)

(* C6: create_table(T, S) on a T without a schema returns normally, sets   *)
(* schemas[T] = S and tables[T] = {} and appends exactly one CREATE_TABLE  *)
(* entry; on a T that has a schema it raises "already exists" and leaves   *)
(* schemas, tables and the files as they were.                             *)
C6_CreateTable ==
    [][ res'.op = "create_table" =>
          IF res'.table \in DOMAIN schemas
          THEN /\ res'.err = "ValueError: already exists"
               /\ Untouched
               /\ res'.trace = <<>>
          ELSE LET entry == Entry("CREATE_TABLE", res'.table, None, res'.value)
               IN  /\ res'.err = ""
                   /\ schemas' = DictSet(schemas, res'.table, res'.value)
                   /\ tables' = DictSet(tables, res'.table, EmptyDict)
                   /\ Appended(res'.trace) = <<entry>>
                   /\ wal' = Append(wal, Frame(entry))
      ]_vars

\* a create_table was refused on a table that holds a row
C6_Witness ==
    /\ res.op = "create_table" /\ res.err = "ValueError: already exists"
    /\ \E k \in Keys : Stored(St, "t", k)

(* C7: drop_table(T) on a T that has a schema returns normally, removes    *)
(* schemas[T] and T's rows and appends exactly one DROP_TABLE entry, so    *)
(* that T is absent after a restart; on a T without a schema it raises     *)
(* "does not exist" and changes nothing.                                   *)
C7_DropTable ==
    [][ res'.op = "drop_table" =>
          IF res'.table \in DOMAIN schemas
          THEN /\ res'.err = ""
               /\ res'.table \notin DOMAIN schemas'
               /\ res'.table \notin DOMAIN tables'
               /\ Appended(res'.trace) = <<Entry("DROP_TABLE", res'.table, None, None)>>
               /\ res'.table \notin list_tables(StorageEngine(St'))
          ELSE /\ res'.err = "ValueError: does not exist"
               /\ Untouched
               /\ res'.trace = <<>>
      ]_vars

(* C8: delete(T, k) of a stored k returns true, removes the row, appends   *)
(* exactly one DELETE entry and leaves get(T, k) absent; when T or k is    *)
(* absent it returns false without raising, appends nothing, does not      *)
(* count a mutation and leaves everything as it was.                       *)
C8_Delete ==
    [][ res'.op = "delete" =>
          IF Stored(St, res'.table, res'.key)
          THEN /\ res'.err = "" /\ res'.ret = TRUE
               /\ tables' = [tables EXCEPT ![res'.table] = DictDel(@, res'.key)]
               /\ schemas' = schemas
               /\ Appended(res'.trace) = <<Entry("DELETE", res'.table, res'.key, None)>>
               /\ get(St', res'.table, res'.key) = <<>>
          ELSE /\ res'.err = "" /\ res'.ret = FALSE
               /\ Untouched
               /\ res'.trace = <<>>
      ]_vars

\* a delete removed one row and left the other
C8_Witness ==
    /\ res.op = "delete" /\ res.ret = TRUE /\ res.err = ""
    /\ ~Stored(St, "t", res.key)
    /\ \E k \in Keys : Stored(St, "t", k)

----------------------------------------------------------------------------
\* the index key an index derives from a row
IndexKeyOf(ix, row) ==
    IF ix.kind = "hash" THEN hash_get_index_key(ix, row)
    ELSE btree_get_index_value(ix, row)

\* the row keys an index holds under an index key
Bucket(ix, index_key) == DictGet(ix.index, index_key, {})

(* C9: after any sequence of executor statements, those that abort with   *)
(* an exception included, every index of every table agrees with storage: *)
(* a stored row whose indexed columns are all non-null is in the bucket   *)
(* of the index key derived from it, and every row key in a bucket is a   *)
(* stored row of the table whose derived index key is that bucket's.      *)
C9_IndexConsistency ==
    \A t \in DOMAIN indexes : \A i \in DOMAIN indexes[t] :
        LET ix == indexes[t][i]
            rows == DictGet(tables, t, EmptyDict)
        IN  /\ \A k \in DOMAIN rows :
                    (\A j \in DOMAIN ix.columns : RowGet(rows[k], ix.columns[j]) # None)
                        => k \in Bucket(ix, IndexKeyOf(ix, rows[k]))
            /\ \A index_key \in DOMAIN ix.index : \A k \in ix.index[index_key] :
                    /\ k \in DOMAIN rows
                    /\ IndexKeyOf(ix, rows[k]) = index_key

(* C10: a SELECT with equality conditions returns exactly the rows a full *)
(* scan of the table filtered by those conditions returns, each once,     *)
(* whichever index is chosen: an index never makes a matching row go      *)
(* missing.                                                               *)
C10_SelectMatchesScan ==
    res.op = "SELECT" =>
        LET expected == Filter(scan(St, res.table), res.value)
        IN  /\ {res.ret[i] : i \in DOMAIN res.ret} = {expected[i] : i \in DOMAIN expected}
            /\ Len(res.ret) = Len(expected)

----------------------------------------------------------------------------
\* the node every single-node specification is about
Node1 == raft["n1"]

(* C11: when the node does not lead, execute_query of an INSERT, UPDATE,   *)
(* DELETE, CREATE TABLE or DROP TABLE statement returns the error result   *)
(* with is_leader false and changes nothing: the consensus log, the        *)
(* storage engine with its WAL and snapshot, the indexes and the key       *)
(* counter the executor draws from stay as they were.                      *)
C11_NotLeaderRejects ==
    [][ (/\ res'.op = "execute_query"
         /\ res'.step = "is_leader"
         /\ res'.query.query_type \in WriteTypes
         /\ ~is_leader(Node1))
        => /\ res'.result # <<>>
           /\ res'.result[1].status = "error"
           /\ res'.result[1].is_leader = <<FALSE>>
           /\ UNCHANGED <<database, raft, inflight>>
      ]_vars

\* an INSERT turned away by a node that is not leader
C11_Witness ==
    /\ res.op = "execute_query"
    /\ res.query.query_type = "INSERT"
    /\ res.result = <<NotTheLeader>>
    /\ ~is_leader(Node1)

AllIdle == \A c \in Clients : inflight[c].pc = "idle"

\* the log holds CREATE TABLE and then INSERTs only
CreateThenInserts(log) ==
    /\ log # <<>>
    /\ log[1].command.sql.query_type = "CREATE_TABLE"
    /\ \A i \in 2..Len(log) : log[i].command.sql.query_type = "INSERT"

(* C12: on the leader every accepted write is executed once, through the   *)
(* apply callback of its log entry: when the log holds CREATE TABLE        *)
(* followed by n INSERTs and no call is in progress, SELECT * returns n    *)
(* rows.                                                                   *)
C12_OneRowPerInsert ==
    (/\ res.op = "execute_query"
     /\ res.step = "execute"
     /\ res.query.query_type = "SELECT"
     /\ res.query.conditions = EmptyDict
     /\ AllIdle
     /\ CreateThenInserts(Node1.log))
    => /\ res.result[1].status = "success"
       /\ Len(res.result[1].rows[1]) = Len(Node1.log) - 1

(* C13: on the leader the result of a write describes what the statement   *)
(* did to the state it met: CREATE TABLE of an absent table returns        *)
(* status success, UPDATE and DELETE return as rows_affected the number of *)
(* rows their WHERE matched before they ran.                               *)
C13_ResultOfTheWrite ==
    [][ (/\ res'.op = "execute_query"
         /\ res'.step = "execute"
         /\ res'.query.query_type \in WriteTypes)
        => LET met == inflight[res'.client].before[1]
               result == res'.result[1]
           IN  /\ (res'.query.query_type = "CREATE_TABLE" /\ met.absent)
                    => result.status = "success"
               /\ (res'.query.query_type \in {"UPDATE", "DELETE"})
                    => /\ result.status = "success"
                       /\ result.rows_affected = <<met.matched>>
      ]_vars

(* C14: append_entry(command) on a follower or a candidate returns false   *)
(* and changes nothing of the node (log, commit_index, last_applied, what  *)
(* the callback was handed); on a leader it returns true and the log grows *)
(* by exactly one entry, which carries the current term and the command.   *)
(* replicate_write does the same.                                          *)
C14_AppendEntryLeaderOnly ==
    [][ res'.op \in {"append_entry", "replicate_write"} =>
            IF Node1.state # "leader"
            THEN res'.ret = FALSE /\ raft' = raft
            ELSE /\ res'.ret = TRUE
                 /\ Node1'.log = Append(Node1.log,
                        LogEntry(Node1.current_term, Len(Node1.log), res'.command))
      ]_vars

\* a node that led, appended and stepped down refuses the next append
C14_Witness ==
    /\ res.op = "append_entry"
    /\ res.ret = FALSE
    /\ Node1.state = "follower"
    /\ Len(Node1.log) > 0

(* C15: the apply callback is handed the entries of the log in index       *)
(* order, each once and none skipped: what it has been handed so far is a  *)
(* prefix of the log, whenever the callback was installed.                 *)
C15_ApplyInOrder ==
    \A n \in RaftNodes : IsPrefix(raft[n].applied, raft[n].log)

(* C16: a node that is its whole cluster starts as follower; left running  *)
(* and called by no peer, its election timeout makes it leader of term 1,  *)
(* and it stays leader of term 1 for ever; every append_entry on the       *)
(* leader returns true with the entry committed and applied (and handed to *)
(* the callback if one is installed) when it returns.                      *)
C16_SoleNodeLeads ==
    /\ Node1.state = "follower"
    /\ <>[](Node1.state = "leader" /\ Node1.current_term = 1)
    /\ [][ (res'.op = "_on_election_timeout" /\ Node1.state # "leader") =>
                (Node1'.state = "leader" /\ Node1'.current_term = 1) ]_vars
    /\ [][ Node1.state = "leader" => Node1'.state = "leader" ]_vars
    /\ [][ (res'.op = "append_entry" /\ Node1.state = "leader") =>
                /\ res'.ret = TRUE
                /\ Len(Node1'.log) = Len(Node1.log) + 1
                /\ Node1'.commit_index = Len(Node1'.log)
                /\ Node1'.last_applied = Len(Node1'.log)
                /\ Node1.apply_callback =>
                        Node1'.applied = Append(Node1.applied, Node1'.log[Len(Node1'.log)])
       ]_vars

C16_Witness ==
    /\ res.op = "append_entry"
    /\ res.ret = TRUE
    /\ Node1.state = "leader"
    /\ Node1.current_term = 1
    /\ Node1.last_applied = Len(Node1.log)
    /\ Len(Node1.applied) > 0

(* C17: no two nodes are leader with the same current_term.                *)
C17_OneLeaderPerTerm ==
    \A n \in RaftNodes, peer \in RaftNodes :
        (n # peer /\ raft[n].state = "leader" /\ raft[peer].state = "leader")
            => raft[n].current_term # raft[peer].current_term

\* a node that has executed nothing
NewMachine ==
    [db |-> [st |-> [schemas |-> EmptyDict, tables |-> EmptyDict,
                     operations_since_snapshot |-> 0, wal |-> <<>>,
                     snapshot_json |-> <<>>, snapshot_tmp |-> <<>>],
             indexes |-> EmptyDict],
     next_key |-> 1, raised |-> FALSE]

(* C18: with several threads in execute_query on the leader, the writes    *)
(* take effect in the order of their log indices: once no call is in       *)
(* progress the tables, schemas and rows of the storage engine are those   *)
(* of a node that applied the commands of the log one after another in     *)
(* index order.                                                            *)
C18_LogOrder ==
    AllIdle => Observe(St) = Observe(ApplyAll(NewMachine, Node1.log).db.st)

(* C19: once shutdown has returned, no election-timeout and no heartbeat   *)
(* callback runs, no timer is started again, and role and current_term     *)
(* stay what they are, whatever timer was due and whatever call comes in.  *)
C19_ShutdownIsFinal ==
    [][ Node1.shut =>
            /\ res'.op \notin {"_on_election_timeout", "_send_heartbeat"}
            /\ Node1'.election_timer = "pending" => Node1.election_timer = "pending"
            /\ Node1'.heartbeat_timer = "pending" => Node1.heartbeat_timer = "pending"
            /\ Node1'.state = Node1.state
            /\ Node1'.current_term = Node1.current_term
      ]_vars

Locks ==
    {NodeLock, ClusterManagerLock, ReplicationManagerLock, RaftNodeLock,
     QueryExecutorLock, IndexManagerLock, IndexLock, StorageEngineLock,
     WriteAheadLogLock}

\* the place of a lock in Coordinator, Consensus, Executor, Index Manager,
\* Storage Engine, WAL; 0 for a lock of no subsystem of that list
Rank(lock) ==
    CASE lock = NodeLock -> 1
      [] lock \in {ReplicationManagerLock, RaftNodeLock} -> 2
      [] lock = QueryExecutorLock -> 3
      [] lock \in {IndexManagerLock, IndexLock} -> 4
      [] lock = StorageEngineLock -> 5
      [] lock = WriteAheadLogLock -> 6
      [] OTHER -> 0

\* threads that wait for each other, or for themselves, for ever
Deadlock ==
    \E waiting \in (SUBSET Threads) \ {{}} :
        \A t \in waiting : \E lock \in Locks :
            /\ Wants(t, lock)
            /\ \/ \E u \in waiting \ {t} : Holds(u, lock)
               \/ Holds(t, lock) /\ ~Reentrant(lock)

(* C20: a thread that asks for a lock of one subsystem holds no lock of a  *)
(* subsystem that comes later in Coordinator, Consensus, Executor, Index   *)
(* Manager, Storage Engine, WAL; and execute_query, the apply callback,    *)
(* the timer callbacks, snapshot, get_status and stop, run by threads side *)
(* by side, never reach a state where threads wait for each other.         *)
C20_LockOrder ==
    /\ \A t \in Threads, lock \in Locks :
            (Wants(t, lock) /\ Rank(lock) > 0)
            => \A i \in DOMAIN threads[t].held :
                    Rank(threads[t].held[i]) <= Rank(lock)
    /\ ~Deadlock

\* a thread inside the apply callback down to the WAL while get_status,
\* holding the node's lock, waits for the RaftNode
C20_Witness ==
    \E t, u \in Threads :
        /\ Holds(t, ReplicationManagerLock)
        /\ Holds(t, RaftNodeLock)
        /\ Holds(t, QueryExecutorLock)
        /\ Holds(t, StorageEngineLock)
        /\ Holds(t, WriteAheadLogLock)
        /\ Holds(u, NodeLock)
        /\ Wants(u, RaftNodeLock)
        /\ ~Free(u, RaftNodeLock)

(* C21: every successful create_table, drop_table and put, and every       *)
(* delete that removed a row, adds one to operations_since_snapshot; when  *)
(* that reaches the snapshot interval the snapshot is written before the   *)
(* call returns, the counter is 0 and the log is empty; so when the call   *)
(* has returned the counter and the number of log records are both below   *)
(* the interval.                                                           *)
C21_CountedMutations ==
    [][ (/\ res'.op \in {"create_table", "drop_table", "put", "delete"}
         /\ res'.err = ""
         /\ res'.op = "delete" => res'.ret = TRUE)
        => /\ IF operations_since_snapshot + 1 >= SnapshotInterval
              THEN /\ operations_since_snapshot' = 0
                   /\ wal' = <<>>
                   /\ Did(res', {"rename"})
              ELSE operations_since_snapshot' = operations_since_snapshot + 1
           /\ operations_since_snapshot' < SnapshotInterval
           /\ Len(wal') < SnapshotInterval
      ]_vars

(* C22: read_all_entries returns, in the order they were appended, the     *)
(* entries whose frame is whole in the file, and nothing else: the bytes   *)
(* of a frame whose writing was cut short are dropped without an error.    *)
C22_ReadAllEntries ==
    res.op = "read_all_entries" => (res.err = "" /\ res.ret = log_file.written)

----------------------------------------------------------------------------
\* the rows of a table and those a WHERE matches
RowsOf(tbls, t) == DictGet(tbls, t, EmptyDict)
Matching(rows, conditions) ==
    {k \in DOMAIN rows : matches_conditions(rows[k], conditions)}

\* the statement left in storage the rows that matched, merged with the SET
\* values under their keys, and every other row as it was
UpdateStored(t, values, conditions, ret) ==
    LET old == RowsOf(tables, t)
        new == RowsOf(tables', t)
        hit == Matching(old, conditions)
    IN  /\ DOMAIN new = DOMAIN old
        /\ \A k \in DOMAIN old :
                new[k] = IF k \in hit THEN Merge(old[k], values) ELSE old[k]
        /\ ret = Cardinality(hit)

\* the SET values a row had before, as a WHERE
OldValues(row, values) ==
    [col \in (DOMAIN values) \cap (DOMAIN row) |-> row[col]]

\* a SELECT on the SET values returns every updated row, a SELECT on the
\* values an updated row had before does not return it when they changed
UpdateSelectable(t, values, conditions) ==
    LET old == RowsOf(tables, t)
        new == RowsOf(tables', t)
        hit == Matching(old, conditions)
    IN  /\ \A rows \in execute_select(Db', t, values) : \A k \in hit :
                \E i \in DOMAIN rows : rows[i]["_key"] = k
        /\ \A k \in hit :
                ~matches_conditions(new[k], OldValues(old[k], values))
                => \A rows \in execute_select(Db', t, OldValues(old[k], values)) :
                        \A i \in DOMAIN rows : rows[i]["_key"] # k

(* C23: an UPDATE that returns changes exactly the rows its WHERE matched  *)
(* before it ran (all rows without a WHERE): each keeps its key and holds  *)
(* the old row with the SET values merged over it, the other rows and the  *)
(* number of rows are unchanged, rows_affected is the number of matching   *)
(* rows; afterwards a SELECT on the new values, whatever index it goes     *)
(* through, returns the updated rows and a SELECT on the old values does   *)
(* not.                                                                    *)
C23_Update ==
    [][ (res'.op = "UPDATE" /\ res'.err = "")
        => /\ UpdateStored(res'.table, res'.value.values,
                           res'.value.conditions, res'.ret)
           /\ UpdateSelectable(res'.table, res'.value.values,
                               res'.value.conditions)
      ]_vars

(* C24: a DELETE removes from storage and from every index of the table    *)
(* exactly the rows its WHERE matched before it ran, leaves the other rows *)
(* and their index entries as they were and returns the number of rows     *)
(* removed as rows_affected; afterwards no row of the table matches the    *)
(* WHERE.                                                                  *)
C24_Delete ==
    [][ (res'.op = "DELETE" /\ res'.err = "")
        => LET t == res'.table
               old == RowsOf(tables, t)
               new == RowsOf(tables', t)
               hit == Matching(old, res'.value)
               before == get_indexes_for_table(indexes, t)
               after == get_indexes_for_table(indexes', t)
           IN  /\ DOMAIN new = (DOMAIN old) \ hit
               /\ \A k \in DOMAIN new : new[k] = old[k]
               /\ res'.ret = Cardinality(hit)
               /\ Matching(new, res'.value) = {}
               /\ schemas' = schemas
               /\ DOMAIN after = DOMAIN before
               /\ \A i \in DOMAIN before :
                    /\ after[i].name = before[i].name
                    /\ after[i].columns = before[i].columns
                    /\ \A index_key \in (DOMAIN before[i].index) \cup (DOMAIN after[i].index) :
                            Bucket(after[i], index_key) = Bucket(before[i], index_key) \ hit
      ]_vars

\* a DELETE removed an indexed row and left another row in the table and
\* in the index
C24_Witness ==
    /\ res.op = "DELETE" /\ res.err = "" /\ res.ret = 1
    /\ RowsOf(tables, "t") # EmptyDict
    /\ \E i \in DOMAIN get_indexes_for_table(indexes, "t") :
            get_indexes_for_table(indexes, "t")[i].index # EmptyDict

\* row x comes strictly before row y under ORDER BY order_by; a missing
\* column orders as the lowest value
RECURSIVE Precedes(_, _, _)
Precedes(x, y, order_by) ==
    IF order_by = <<>> THEN FALSE
    ELSE LET col == Head(order_by)[1]
             kx == IF col \in DOMAIN x THEN x[col] ELSE -1
             ky == IF col \in DOMAIN y THEN y[col] ELSE -1
         IN  IF kx = ky THEN Precedes(x, y, Tail(order_by))
             ELSE IF Head(order_by)[2] = "DESC" THEN kx > ky ELSE kx < ky

Listed(row, columns) ==
    IF columns = <<"*">> THEN row
    ELSE [col \in {c \in DOMAIN row : \E i \in DOMAIN columns : columns[i] = c}
            |-> row[col]]

\* the rows returned are the first n of the matching rows in the order
\* asked for, each cut down to the listed columns
StagesApplied(ret, stored, query) ==
    LET hit == Matching(stored, query.conditions)
        n == IF query.limit # <<>> /\ query.limit[1] < Cardinality(hit)
             THEN query.limit[1] ELSE Cardinality(hit)
        Full(k) == WithKey(stored[k], k)
    IN  /\ ret.row_count = Len(ret.rows)
        /\ Len(ret.rows) = n
        /\ \E ks \in [1..n -> hit] :
            /\ \A i, j \in 1..n : ks[i] = ks[j] => i = j
            /\ \A i, j \in 1..n :
                    i < j => ~Precedes(Full(ks[j]), Full(ks[i]), query.order_by)
            /\ \A i \in 1..n : \A k \in hit \ {ks[j] : j \in 1..n} :
                    ~Precedes(Full(k), Full(ks[i]), query.order_by)
            /\ \A i \in 1..n : ret.rows[i] = Listed(Full(ks[i]), query.columns)

(* C25: a SELECT filters, then orders by the ORDER BY keys (the first key  *)
(* decides, the next one orders the rows equal on it), then keeps the      *)
(* first LIMIT rows, then cuts every row down to the listed columns that   *)
(* it has; row_count is the number of rows returned.                       *)
C25_SelectStages ==
    res.op = "SELECT" =>
        /\ res.err = ""
        /\ StagesApplied(res.ret, RowsOf(tables, res.table), res.value)

C25_WhenSorted ==
    (res.op = "SELECT" /\ res.err = "") =>
        StagesApplied(res.ret, RowsOf(tables, res.table), res.value)

(* C26: DROP TABLE of a table that has a schema, in any state and also     *)
(* after a recovery, leaves no index registered on the table, so a table   *)
(* created again under the name starts without indexes.                    *)
C26_DropTableDropsIndexes ==
    [][ (res'.op = "DROP_TABLE" /\ res'.table \in DOMAIN schemas)
            => get_indexes_for_table(indexes', res'.table) = <<>> ]_vars

\* the same for the statements that return
C26_WhenDropped ==
    [][ (res'.op = "DROP_TABLE" /\ res'.err = "")
            => get_indexes_for_table(indexes', res'.table) = <<>> ]_vars

\* every stored row whose indexed columns are all non-null is in the index
Filled(ix, rows) ==
    \A k \in DOMAIN rows :
        (\A j \in DOMAIN ix.columns : RowGet(rows[k], ix.columns[j]) # None)
            => k \in Bucket(ix, IndexKeyOf(ix, rows[k]))

AllFilled(table) ==
    \A i \in DOMAIN get_indexes_for_table(indexes, table) :
        Filled(get_indexes_for_table(indexes, table)[i], RowsOf(tables, table))

(* C27: CREATE INDEX fills the index from the rows the table holds within  *)
(* the same call of the executor: when it returns, every row with a        *)
(* non-null indexed value is in the index, and a SELECT that runs under    *)
(* the executor's lock never finds an index registered and partly filled.  *)
C27_BackFill ==
    /\ (res.op = "CREATE_INDEX" /\ res.err = ""
            /\ HasIndex(indexes, res.table, res.value.index.name))
        => \A i \in DOMAIN get_indexes_for_table(indexes, res.table) :
                get_indexes_for_table(indexes, res.table)[i].name = res.value.index.name
                    => Filled(get_indexes_for_table(indexes, res.table)[i],
                              RowsOf(tables, res.table))
    /\ \A c \in Clients :
            Executing(c, "SELECT") => AllFilled(inflight[c].query[1].table)

C27_Witness ==
    /\ \E c \in Clients : Executing(c, "SELECT")
    /\ res.op = "CREATE_INDEX" /\ res.err = ""
    /\ RowsOf(tables, "t") # EmptyDict
    /\ \E i \in DOMAIN get_indexes_for_table(indexes, "t") :
            /\ get_indexes_for_table(indexes, "t")[i].name = res.value.index.name
            /\ get_indexes_for_table(indexes, "t")[i].index # EmptyDict

Registered(im) == [t \in TableNames |-> get_indexes_for_table(im, t)]

C30_NoEmptyBucket ==
    \A t \in DOMAIN indexes : \A i \in DOMAIN indexes[t] :
        \A index_key \in DOMAIN indexes[t][i].index :
            indexes[t][i].index[index_key] # {}

\* a delete has just removed an index key whose last row key it discarded,
\* from an index that holds other rows
C30_Witness ==
    /\ res.op = "delete" /\ res.ret = 1
    /\ \E i \in DOMAIN get_indexes_for_table(indexes, "t") :
            /\ get_indexes_for_table(indexes, "t")[i].name = res.value
            /\ get_indexes_for_table(indexes, "t")[i].index # EmptyDict

\* no index of that name is registered on a table, or chosen for a WHERE
Unregistered(im, index_name) ==
    \A t \in TableNames :
        /\ ~HasIndex(im, t, index_name)
        /\ \A conditions \in CondInputs :
                find_best_index(im, t, conditions) # <<>>
                    => find_best_index(im, t, conditions)[1].name # index_name

(* C29: after DROP INDEX name ON t, or DROP INDEX name without a table,    *)
(* returned success, the index of that name is no longer registered, so it *)
(* is neither chosen by find_best_index nor maintained by later inserts    *)
(* and deletes; dropping an index that does not exist changes nothing.     *)
C29_DropIndex ==
    [][ (res'.op = "DROP_INDEX" /\ res'.err = "")
            => /\ Unregistered(indexes', res'.value)
               /\ St' = St
               /\ (\A t \in TableNames : ~HasIndex(indexes, t, res'.value))
                    => Registered(indexes') = Registered(indexes) ]_vars

\* the same for the form that names the table
C29_OnTable ==
    [][ (res'.op = "DROP_INDEX" /\ res'.err = "" /\ res'.table # NoTable)
            => /\ Unregistered(indexes', res'.value)
               /\ St' = St
               /\ (\A t \in TableNames : ~HasIndex(indexes, t, res'.value))
                    => Registered(indexes') = Registered(indexes) ]_vars

\* how many columns of the index the conditions name
Named(ix, conditions) ==
    Cardinality({j \in DOMAIN ix.columns : ix.columns[j] \in DOMAIN conditions})

(* C31: find_best_index returns the index of the table with the most       *)
(* columns named in the conditions, at least one, the earliest created of  *)
(* those that tie; none when no index of the table has a column in the     *)
(* conditions; never an index of another table; the registry is unchanged. *)
C31_FindBestIndex ==
    [][ res'.op = "find_best_index" =>
          LET registered == get_indexes_for_table(indexes, res'.table)
              conditions == res'.value
          IN  /\ indexes' = indexes
              /\ IF \E i \in DOMAIN registered : Named(registered[i], conditions) >= 1
                 THEN \E i \in DOMAIN registered :
                        /\ res'.ret = <<registered[i]>>
                        /\ Named(registered[i], conditions) >= 1
                        /\ \A j \in DOMAIN registered :
                            /\ Named(registered[j], conditions)
                                    <= Named(registered[i], conditions)
                            /\ j < i => Named(registered[j], conditions)
                                            < Named(registered[i], conditions)
                        /\ \A other \in IndexedTables \ {res'.table} :
                                ~HasIndex(indexes, other, registered[i].name)
                 ELSE res'.ret = <<>> ]_vars

\* two indexes of the table tie and the other table has one that scores too
C31_Witness ==
    /\ res.op = "find_best_index" /\ res.table = "t" /\ res.ret # <<>>
    /\ Cardinality({i \in DOMAIN get_indexes_for_table(indexes, "t") :
            Named(get_indexes_for_table(indexes, "t")[i], res.value)
                = Named(res.ret[1], res.value)}) = 2
    /\ \E i \in DOMAIN get_indexes_for_table(indexes, "u") :
            Named(get_indexes_for_table(indexes, "u")[i], res.value) >= 1

(* C32: range_scan of a btree index over its column returns exactly the    *)
(* keys of the rows whose indexed value v has lo <= v <= hi, a bound left  *)
(* out being no bound and both left out giving every indexed row; a row    *)
(* whose indexed value is null is never returned; on a hash index the call *)
(* raises.                                                                 *)
C32_RangeScan ==
    res.op = "range_scan" =>
        LET rows == RowsOf(tables, res.table)
            call == res.value
        IN  /\ call.kind = "hash" => res.err # ""
            /\ (call.kind = "btree" /\ call.column = "a") =>
                /\ res.err = ""
                /\ res.ret = {k \in DOMAIN rows :
                        /\ "a" \in DOMAIN rows[k]
                        /\ call.start # <<>> => call.start[1] <= rows[k]["a"]
                        /\ call.end # <<>> => rows[k]["a"] <= call.end[1]}

\* a scan with both bounds that returns the row whose value is the upper
\* bound and leaves another stored row out
C32_Witness ==
    /\ res.op = "range_scan" /\ res.err = ""
    /\ res.value.start # <<>> /\ res.value.end # <<>>
    /\ Cardinality(res.ret) = 1
    /\ \E k \in res.ret : RowsOf(tables, "t")[k]["a"] = res.value.end[1]
    /\ \E k \in DOMAIN RowsOf(tables, "t") : k \notin res.ret

(* C33: append_entries from a sender with a term below current_term        *)
(* returns false, changes no state and resets no timer; with a term equal  *)
(* or higher it returns true and resets the election timer, and a higher   *)
(* term also becomes current_term, clears voted_for and makes the node a   *)
(* follower; commit_index goes to min(leader_commit, length of the log)    *)
(* when leader_commit is above it, and is never lowered.                   *)
C33_AppendEntries ==
    [][ (res'.op = "append_entries" /\ res'.node = "n1") =>
          LET old == raft["n1"]
              new == raft'["n1"]
          IN  IF res'.term < old.current_term
              THEN /\ res'.ret = FALSE
                   /\ new = old
              ELSE /\ res'.ret = TRUE
                   /\ new.election_timer = "pending"
                   /\ IF res'.term > old.current_term
                      THEN /\ new.current_term = res'.term
                           /\ new.voted_for = <<>>
                           /\ new.state = "follower"
                      ELSE /\ new.current_term = old.current_term
                           /\ new.voted_for = old.voted_for
                           /\ new.state = old.state
                   /\ new.commit_index =
                        IF res'.commit > old.commit_index
                        THEN (IF res'.commit <= Len(old.log) THEN res'.commit
                              ELSE Len(old.log))
                        ELSE old.commit_index
                   /\ new.commit_index >= old.commit_index
                   /\ new.log = old.log ]_vars

\* a leader with a log has heard a higher term and stepped down
C33_Witness ==
    /\ res.op = "append_entries" /\ res.node = "n1" /\ res.ret = TRUE
    /\ raft["n1"].state = "follower"
    /\ raft["n1"].current_term = res.term
    /\ raft["n1"].log # <<>>
    /\ res.commit > raft["n1"].commit_index

RaftOrdered(rn) ==
    /\ 0 <= rn.last_applied
    /\ rn.last_applied <= rn.commit_index
    /\ rn.commit_index <= Len(rn.log)
    /\ \A i \in DOMAIN rn.log : rn.log[i].index = i - 1
    /\ \A i, j \in DOMAIN rn.log : i <= j => rn.log[i].term <= rn.log[j].term

(* C36: in every reachable state of a RaftNode, 0 <= last_applied <=       *)
(* commit_index <= length of the log; current_term, commit_index,          *)
(* last_applied and the length of the log never decrease; the entry at     *)
(* position i of the log carries index i; the terms of the log entries are *)
(* non-decreasing along the log.                                           *)
C36_RaftInvariants ==
    [][ \A n \in RaftNodes :
            /\ RaftOrdered(raft[n])
            /\ RaftOrdered(raft'[n])
            /\ raft'[n].current_term >= raft[n].current_term
            /\ raft'[n].commit_index >= raft[n].commit_index
            /\ raft'[n].last_applied >= raft[n].last_applied
            /\ Len(raft'[n].log) >= Len(raft[n].log) ]_vars

\* a node that led in two terms has an entry of each
C36_Witness ==
    /\ Len(raft["n1"].log) = 2
    /\ raft["n1"].log[1].term < raft["n1"].log[2].term
    /\ raft["n1"].last_applied = 2

\* the candidate's (last_log_term, last_log_index) is at least the node's
UpToDate(rn, last_log_index, last_log_term) ==
    \/ last_log_term > LastLogTerm(rn)
    \/ last_log_term = LastLogTerm(rn) /\ last_log_index >= Len(rn.log) - 1

(* C37: within one term a RaftNode grants its vote to at most one          *)
(* candidate.  request_vote returns true only when the candidate's term is *)
(* the node's current_term (possibly just raised), voted_for is unset or   *)
(* that candidate, and the candidate's log is at least as up to date; a    *)
(* request with a lower term is refused and changes nothing; a node that   *)
(* voted for itself in _start_election grants no other vote in the term.   *)
C37_OneVotePerTerm ==
    [][ LET old == raft["n1"]
            new == raft'["n1"]
        IN  /\ (new.current_term = old.current_term /\ old.voted_for # <<>>)
                    => new.voted_for = old.voted_for
            /\ (res'.op = "request_vote" /\ res'.node = "n1") =>
                /\ res'.ret = TRUE <=>
                    /\ res'.term = new.current_term
                    /\ res'.term > old.current_term \/ old.voted_for \in {<<>>, <<res'.from>>}
                    /\ UpToDate(old, res'.last_log_index, res'.last_log_term)
                /\ res'.ret = TRUE => new.voted_for = <<res'.from>>
                /\ res'.term < old.current_term => (res'.ret = FALSE /\ new = old) ]_vars

\* a candidate that voted for itself has refused a peer with the same term
\* and a log as good as its own
C37_Witness ==
    /\ res.op = "request_vote" /\ res.node = "n1" /\ res.ret = FALSE
    /\ res.term = raft["n1"].current_term
    /\ raft["n1"].voted_for = <<"n1">>
    /\ UpToDate(raft["n1"], res.last_log_index, res.last_log_term)

(* C38: every RaftNode that has not been shut down and is not leader has   *)
(* an armed election timer (pending, or expired with its callback about to *)
(* run), so a node that leaves the leader role on seeing a higher term     *)
(* starts a new election later.                                            *)
C38_ElectionTimerArmed ==
    \A n \in RaftNodes :
        (~raft[n].shut /\ raft[n].state # "leader")
            => (raft[n].election_timer = "pending" \/ raft[n].election_due > 0)

\* the same for a node that left the leader role through append_entries
C38_AfterAppendEntries ==
    [][ (res'.op = "append_entries" /\ res'.ret = TRUE)
            => raft'[res'.node].election_timer = "pending" ]_vars

(* C39: a RaftNode configured with more than one cluster member never      *)
(* becomes leader: each election timeout makes it candidate, raises        *)
(* current_term by one, sets voted_for to the node itself and re-arms the  *)
(* election timer; every write through Node.execute_query of such a node   *)
(* is turned away.                                                         *)
C39_NeverLeads ==
    [][ Len(Node1.all_nodes) > 1 =>
          /\ ~is_leader(Node1)
          /\ ~is_leader(Node1')
          /\ (res'.op = "_on_election_timeout" /\ res'.node = "n1") =>
                /\ Node1'.state = "candidate"
                /\ Node1'.current_term = Node1.current_term + 1
                /\ Node1'.voted_for = <<"n1">>
                /\ Node1'.election_timer = "pending"
          /\ (res'.op = "execute_query" /\ res'.step = "is_leader"
                    /\ res'.query.query_type \in WriteTypes) =>
                /\ res'.result = <<NotTheLeader>>
                /\ UNCHANGED <<database, raft, inflight>> ]_vars

\* a write turned away after the second election of a node with a peer
C39_Witness ==
    /\ res.op = "execute_query" /\ res.step = "is_leader"
    /\ res.query.query_type = "INSERT"
    /\ res.result = <<NotTheLeader>>
    /\ Len(Node1.all_nodes) > 1
    /\ Node1.state = "candidate" /\ Node1.current_term = 2

(* C34: when the process dies inside snapshot() after snapshot.json was     *)
(* renamed into place and before the log was truncated, the next           *)
(* StorageEngine, which loads that snapshot and replays the whole log over  *)
(* it, holds exactly the schemas and the tables the snapshot was written    *)
(* from.                                                                    *)
C34_CrashAfterRename ==
    [][(res.op = "crash_in_snapshot" /\ res'.op = "StorageEngine") =>
            /\ schemas' = res.value.schemas
            /\ tables' = res.value.tables]_vars

\* what does hold of that recovery: every table has the rows the snapshot
\* was written from, a table without rows counting as one that is absent
C34_RowsRecovered ==
    [][(res.op = "crash_in_snapshot" /\ res'.op = "StorageEngine") =>
            \A t \in TableNames :
                DictGet(tables', t, EmptyDict)
                    = DictGet(res.value.tables, t, EmptyDict)]_vars

----------------------------------------------------------------------------
\* the bytes of whole frames, one after the other
RECURSIVE Frames(_)
Frames(entries) ==
    IF entries = <<>> THEN <<>>
    ELSE FrameBytes(Head(entries)) \o Frames(Tail(entries))

\* The file of an engine that died inside an append, was constructed again
\* and appended further entries: whole frames, the torn one (its length
\* prefix whole, so that the recovery in between dropped it without an
\* error), and the frames appended since to the same file, which
\* _open_new_log opens again for appending.
TornThenAppended ==
    \E n \in 0..Len(log_file.written), entry \in WalEntries :
        \E k \in 4..(Len(FrameBytes(entry)) - 1) :
            /\ n < Len(log_file.written)
            /\ log_file.bytes =
                    Frames(SubSeq(log_file.written, 1, n))
                    \o SubSeq(FrameBytes(entry), 1, k)
                    \o Frames(SubSeq(log_file.written, n + 1, Len(log_file.written)))

(* C35: after a crash that left a half-written final record, a restart,   *)
(* further appends and a second restart, the recovery reads every entry     *)
(* that was appended whole, those before the crash and those after the      *)
(* first restart, in order and without an error.                            *)
C35_AppendAfterTornTail ==
    (res.op = "read_all_entries" /\ TornThenAppended)
        => (res.err = "" /\ res.ret = log_file.written)

----------------------------------------------------------------------------
\* the step is one of Node.execute_query on a statement of these types
StepOf(types) ==
    res'.op = "execute_query" /\ res'.query.query_type \in types

\* the step appended nothing to the consensus log and left the rows, the
\* schemas and the files of the storage engine as they were
StorageUntouched ==
    /\ raft'["n1"].log = raft["n1"].log
    /\ UNCHANGED <<schemas, tables, operations_since_snapshot, wal,
                   snapshot_json, snapshot_tmp>>

(* C40: a SELECT through Node.execute_query is answered on a leader and on *)
(* a non-leader alike, appends nothing to the consensus log and leaves the *)
(* rows, the schemas, the WAL and every index as they were; CREATE INDEX   *)
(* and DROP INDEX are executed without asking for the leader, append       *)
(* nothing to the consensus log or the WAL and change nothing but the      *)
(* index registry; a Node constructed again on the same directories has no *)
(* index, and every table that had one has the rows it had.                *)
C40_ReadsAndIndexStatements ==
    [][/\ StepOf({"SELECT"}) =>
            /\ StorageUntouched
            /\ UNCHANGED indexes
            /\ res'.step = "is_leader" => res'.result = <<>>
       /\ StepOf({"CREATE_INDEX", "DROP_INDEX"}) =>
            /\ StorageUntouched
            /\ res'.step = "is_leader" => res'.result = <<>>
       /\ res'.op = "Node" =>
            /\ indexes' = EmptyDict
            /\ \A t \in DOMAIN indexes :
                    indexes[t] # <<>> => RowsOf(tables', t) = RowsOf(tables, t)
      ]_vars

\* on a node that does not lead and whose consensus log is empty, a CREATE
\* INDEX has just built an index over a row that an earlier Node on the same
\* directories stored
C40_Witness ==
    /\ res.op = "execute_query" /\ res.step = "execute"
    /\ res.query.query_type = "CREATE_INDEX"
    /\ res.result[1].status = "success"
    /\ ~is_leader(raft["n1"]) /\ raft["n1"].log = <<>>
    /\ RowsOf(tables, "t") # EmptyDict
    /\ "t" \in DOMAIN indexes /\ Len(indexes["t"]) = 1
    /\ indexes["t"][1].index # EmptyDict

====
